---- MODULE Spec2Model ----
(***************************************************************************)
(* UniTrack: the fetch boundary (unitrack.core.scraper and backend.app),   *)
(* the discovery run (unitrack.core.discovery), their response sniffers    *)
(* and the normalization of captured records.                              *)
(*                                                                         *)
(* Python strings are modelled as sequences of one-character strings, so   *)
(* that lower(), "in" (substring) and string formatting are computed       *)
(* rather than assumed.                                                    *)
(***************************************************************************)
EXTENDS Integers, Sequences, FiniteSets, TLC

\* ------------------------------------------------------------------------
\* String literals of the sources (and of the modelled portal), as
\* character sequences.
\* ------------------------------------------------------------------------
\* the words of the attendance vocabularies
Word ==
    [present |-> <<"p","r","e","s","e","n","t">>,
     absent |-> <<"a","b","s","e","n","t">>,
     subject |-> <<"s","u","b","j","e","c","t">>,
     attendance |-> <<"a","t","t","e","n","d","a","n","c","e">>,
     faculty |-> <<"f","a","c","u","l","t","y">>,
     attended |-> <<"a","t","t","e","n","d","e","d">>,
     totalClasses |-> <<"t","o","t","a","l","C","l","a","s","s","e","s">>,
     course |-> <<"c","o","u","r","s","e">>,
     percentage |-> <<"p","e","r","c","e","n","t","a","g","e">>,
     percent |-> <<"p","e","r","c","e","n","t">>]

\* the field names process_attendance reads
Field ==
    [subject |-> <<"s","u","b","j","e","c","t">>,
     subjectName |-> <<"s","u","b","j","e","c","t","N","a","m","e">>,
     subjectCode |-> <<"s","u","b","j","e","c","t","C","o","d","e">>,
     code |-> <<"c","o","d","e">>,
     presentCount |-> <<"p","r","e","s","e","n","t","C","o","u","n","t">>,
     absentCount |-> <<"a","b","s","e","n","t","C","o","u","n","t">>,
     facultName |-> <<"f","a","c","u","l","t","N","a","m","e">>,
     facultyName |-> <<"f","a","c","u","l","t","y","N","a","m","e">>]

\* markers looked for in URLs and names, and the pieces of str(dict.keys())
Text ==
    [unknown |-> <<"u","n","k","n","o","w","n">>,
     null |-> <<"n","u","l","l">>,
     none |-> <<"n","o","n","e">>,
     login |-> <<"l","o","g","i","n">>,
     error |-> <<"e","r","r","o","r">>,
     authfailed |-> <<"a","u","t","h","f","a","i","l","e","d">>,
     dotjson |-> <<".","j","s","o","n">>,
     repr_open |-> <<"d","i","c","t","_","k","e","y","s","(","[">>,
     repr_close |-> <<"]",")">>,
     repr_sep |-> <<","," ">>]

\* the URLs of the modelled portal
Url ==
    [home |-> <<"/","h","o","m","e">>,
     login |-> <<"/","l","o","g","i","n",".","h","t","m">>,
     login_error |-> <<"/","L","o","g","i","n","?","E","r","r","o","r","=","1">>,
     authfailed |-> <<"/","a","u","t","h","f","a","i","l","e","d",".","h","t","m">>,
     attendance_json |-> <<"/","a","t","t","e","n","d","a","n","c","e",".","j","s","o","n">>,
     subject |-> <<"/","s","u","b","j","e","c","t">>,
     stu_get_json |-> <<"/","s","t","u","_","g","e","t",".","j","s","o","n">>,
     getAttendance_json |-> <<"/","g","e","t","A","t","t","e","n","d","a","n","c","e",".","j","s","o","n">>]

\* values and keys of the modelled portal, and a configured attendance_api
Value ==
    [Maths |-> <<"M","a","t","h","s">>,
     Physics |-> <<"P","h","y">>,
     MA101 |-> <<"M","A","1","0","1">>,
     stu_get_json |-> <<"s","t","u","_","g","e","t",".","j","s","o","n">>,
     subjectAttendance |-> <<"s","u","b","j","e","c","t","A","t","t","e","n","d","a","n","c","e">>]

\* ------------------------------------------------------------------------
\* Python string operations.
\* ------------------------------------------------------------------------
UpperAlpha == <<"A","B","C","D","E","F","G","H","I","J","K","L","M","N","O","P","Q","R","S","T","U","V","W","X","Y","Z">>
LowerAlpha == <<"a","b","c","d","e","f","g","h","i","j","k","l","m","n","o","p","q","r","s","t","u","v","w","x","y","z">>

\* one character of str.lower()
LowerChar(c) ==
    IF \E i \in DOMAIN UpperAlpha : UpperAlpha[i] = c
    THEN LowerAlpha[CHOOSE i \in DOMAIN UpperAlpha : UpperAlpha[i] = c]
    ELSE c

\* str.upper()
Upper(s) ==
    [i \in 1..Len(s) |->
        IF \E j \in DOMAIN LowerAlpha : LowerAlpha[j] = s[i]
        THEN UpperAlpha[CHOOSE j \in DOMAIN LowerAlpha : LowerAlpha[j] = s[i]]
        ELSE s[i]]

\* str.lower()
Lower(s) == [i \in 1..Len(s) |-> LowerChar(s[i])]

\* Python's  k in s  for strings: k occurs in s at some offset
Contains(s, k) ==
    \E i \in 1..(Len(s) - Len(k) + 1) : SubSeq(s, i, i + Len(k) - 1) = k

\* re.search(a + ".*" + b, s): a occurs, and b occurs at or after a's end
\* (the modelled URLs hold no line break, which "." would not match)
SearchThen(s, a, b) ==
    \E i \in 1..(Len(s) - Len(a) + 1) :
        /\ SubSeq(s, i, i + Len(a) - 1) = a
        /\ Contains(SubSeq(s, i + Len(a), Len(s)), b)

\* ------------------------------------------------------------------------
\* JSON values and dicts.  A value carries a type tag t, its integer n
\* (t = "int") and its text s (t = "str").  A dict is the sequence of its
\* (key, value) pairs in insertion order.
\* ------------------------------------------------------------------------
IntV(n) == [t |-> "int", n |-> n, s |-> <<>>]
StrV(s) == [t |-> "str", n |-> 0, s |-> s]
NoneV == [t |-> "none", n |-> 0, s |-> <<>>]

Pair(k, v) == [k |-> k, v |-> v]
Dict(pairs) == [isDict |-> TRUE, pairs |-> pairs]
HasKey(d, k) == \E i \in DOMAIN d : d[i].k = k

\* dict.get(key, default)
Get(d, k, default) ==
    IF HasKey(d, k) THEN d[CHOOSE i \in DOMAIN d : d[i].k = k].v ELSE default

\* list(dict.keys())
Keys(d) == [i \in DOMAIN d |-> d[i].k]

\* ------------------------------------------------------------------------
\* The portal: the responses its pages can produce, and the URLs the
\* browser can be on after the login form was submitted.
\* ------------------------------------------------------------------------
\* its session field holds the portal's own total
recMaths1 ==
    Dict(<<Pair(Field.subject, StrV(Value.Maths)), Pair(Field.subjectCode, StrV(Value.MA101)),
           Pair(Field.presentCount, IntV(23)), Pair(Field.absentCount, IntV(137)),
           Pair(<<"s","e","s","s","i","o","n">>, IntV(40))>>)

\* a later record of the same subject and code, with other counts, one of
\* them negative
recMaths2 ==
    Dict(<<Pair(Field.subject, StrV(Value.Maths)), Pair(Field.subjectCode, StrV(Value.MA101)),
           Pair(Field.presentCount, IntV(-1)), Pair(Field.absentCount, IntV(4))>>)

\* a record of the same subject and code whose count is no number
recBadCount ==
    Dict(<<Pair(Field.subject, StrV(Value.Maths)), Pair(Field.subjectCode, StrV(Value.MA101)),
           Pair(Field.presentCount, StrV(<<"N","A">>)), Pair(Field.absentCount, IntV(4))>>)

\* two subjects with an underscore, one in the name and one in the code
recUnderscoreName ==
    Dict(<<Pair(Field.subject, StrV(<<"a","_","b">>)), Pair(Field.subjectCode, StrV(<<"c">>)),
           Pair(Field.presentCount, IntV(23)), Pair(Field.absentCount, IntV(4))>>)

recUnderscoreCode ==
    Dict(<<Pair(Field.subject, StrV(<<"a">>)), Pair(Field.subjectCode, StrV(<<"b","_","c">>)),
           Pair(Field.presentCount, IntV(4)), Pair(Field.absentCount, IntV(23))>>)

\* one key of the attendance vocabulary
recOneKey == Dict(<<Pair(Field.subject, StrV(Value.Physics))>>)

\* one key that holds two words of the vocabulary
recCompoundKey == Dict(<<Pair(Value.subjectAttendance, StrV(Value.Physics))>>)

\* a record with two keys of ERPDiscovery's vocabulary only
recCourse ==
    Dict(<<Pair(Word.course, StrV(Value.Maths)), Pair(Word.faculty, StrV(Value.Physics))>>)

\* a list item that is no key-value record, such as a number
notARecord == [isDict |-> FALSE, pairs |-> <<>>]

JsonList(items) == [parses |-> TRUE, isList |-> TRUE, items |-> items]
JsonObject == [parses |-> TRUE, isList |-> FALSE, items |-> <<>>]
NotJson == [parses |-> FALSE, isList |-> FALSE, items |-> <<>>]

Response(status, url, ctype_json, body) ==
    [status |-> status, url |-> url, ctype_json |-> ctype_json, body |-> body]

Responses ==
    << Response(200, Url.attendance_json, TRUE, JsonList(<<recMaths1, recMaths2>>)),
       Response(200, Url.subject, TRUE, JsonList(<<recOneKey>>)),
       Response(200, Url.stu_get_json, FALSE, JsonList(<<recCompoundKey>>)),
       Response(500, Url.attendance_json, TRUE, JsonList(<<recMaths1, recMaths2>>)),
       Response(200, Url.attendance_json, TRUE, NotJson),
       Response(200, Url.attendance_json, TRUE, JsonObject),
       Response(200, Url.home, TRUE, JsonList(<<recMaths1, recMaths2>>)),
       Response(200, Url.stu_get_json, TRUE, JsonList(<<notARecord>>)),
       Response(200, Url.getAttendance_json, TRUE, JsonList(<<recCourse>>)) >>

PostSubmitUrls == {Url.home, Url.login, Url.login_error, Url.authfailed}

\* ------------------------------------------------------------------------
\* The three response sniffers.  Each returns what the callback appends to
\* its accumulator for one response: the indexes of the appended items of
\* the response's list (backend, scraper), or one 0 per appended
\* {url, data} entry (discovery).
\* ------------------------------------------------------------------------
\* the first item alone
FirstItem(r) == <<1>>

AllItems(r) == [i \in 1..Len(r.body.items) |-> i]

\* how many words of the vocabulary occur in some lowercased key of first
VocabularyMatches(vocabulary, first) ==
    LET keys == [i \in DOMAIN first.pairs |-> Lower(first.pairs[i].k)]
    IN  Cardinality({w \in DOMAIN vocabulary :
                        \E i \in DOMAIN keys : Contains(keys[i], Lower(vocabulary[w]))})

RECURSIVE JoinQuoted(_)
\* 'k1', 'k2', ...
JoinQuoted(keys) ==
    IF keys = <<>> THEN <<>>
    ELSE <<"'">> \o Head(keys) \o <<"'">>
         \o (IF Len(keys) > 1 THEN Text.repr_sep ELSE <<>>) \o JoinQuoted(Tail(keys))

\* str(first.keys())
StrDictKeys(first) == Text.repr_open \o JoinQuoted(Keys(first.pairs)) \o Text.repr_close

backend_keys_match(first) ==
    LET keys == Lower(StrDictKeys(first))
    IN  Contains(keys, Word.present) \/ Contains(keys, Word.absent) \/ Contains(keys, Word.subject)

capture_response_backend(r) ==
    LET url == Lower(r.url)
    IN  IF /\ r.status = 200
           /\ (Contains(url, Text.dotjson) \/ Contains(url, Word.attendance) \/ Contains(url, Word.subject))
           /\ r.body.parses
           /\ r.body.isList /\ Len(r.body.items) > 0
           /\ r.body.items[1].isDict
           /\ backend_keys_match(r.body.items[1])
        THEN AllItems(r)
        ELSE <<>>

scraper_attendance_keywords == <<Word.present, Word.absent, Word.subject, Word.attendance, Word.faculty>>

looks_like_attendance_scraper(body) ==
    /\ body.isList /\ Len(body.items) > 0
    /\ body.items[1].isDict
    /\ VocabularyMatches(scraper_attendance_keywords, body.items[1]) >= 2

\* attendance_api: config.erp.attendance_api (empty: not configured)
capture_response_scraper(attendance_api, r) ==
    IF attendance_api # <<>>
    THEN IF /\ Contains(r.url, attendance_api)
            /\ r.status = 200
            /\ r.body.parses
            /\ r.body.isList
         THEN AllItems(r)
         ELSE <<>>
    ELSE IF /\ r.status = 200 /\ Contains(Lower(r.url), Text.dotjson)
            /\ r.body.parses
            /\ looks_like_attendance_scraper(r.body)
         THEN AllItems(r)
         ELSE <<>>

discovery_attendance_keys ==
    <<Word.present, Word.absent, Word.attendance, Word.attended, Field.presentCount, Field.absentCount,
      Word.totalClasses, Word.subject, Field.subjectCode, Word.course, Word.faculty, Word.percentage, Word.percent>>

looks_like_attendance_discovery(body) ==
    /\ body.isList /\ Len(body.items) > 0
    /\ body.items[1].isDict
    /\ VocabularyMatches(discovery_attendance_keys, body.items[1]) >= 2

\* ATTENDANCE_API_PATTERNS, each  a.*b  (b empty: a alone); the patterns are
\* searched with re.IGNORECASE in the lowercased URL, so their letters are
\* kept in lower case
ATTENDANCE_API_PATTERNS ==
    << <<Word.attendance, Text.dotjson>>,
       <<<<"g","e","t","a","t","t","e","n","d","a","n","c","e">>, <<>> >>,
       <<<<"s","t","u","d","e","n","t">>, Word.attendance>>,
       <<Word.subject, Word.attendance>>,
       <<<<"s","t","u","_","g","e","t">>, Text.dotjson>>,
       <<<<"a","p","i">>, Word.attendance>>,
       <<<<"m","a","r","k","s">>, Word.attendance>> >>

EndsWith(s, k) == Len(s) >= Len(k) /\ SubSeq(s, Len(s) - Len(k) + 1, Len(s)) = k

RECURSIVE discovery_appends(_, _)
\* the loop over ATTENDANCE_API_PATTERNS from pattern p on
discovery_appends(r, p) ==
    IF p > Len(ATTENDANCE_API_PATTERNS) THEN <<>>
    ELSE LET url == Lower(r.url)
             pat == ATTENDANCE_API_PATTERNS[p]
             hit == /\ SearchThen(url, pat[1], pat[2])
                    /\ r.status = 200
                    /\ (r.ctype_json \/ EndsWith(url, Text.dotjson))
                    /\ r.body.parses
                    /\ looks_like_attendance_discovery(r.body)
         IN  (IF hit THEN <<0>> ELSE <<>>) \o discovery_appends(r, p + 1)

capture_response_discovery(r) == discovery_appends(r, 1)

\* ------------------------------------------------------------------------
\* Normalization of captured records: backend process_attendance and
\* UniversalScraper._process_attendance.
\*
\* An accumulator entry names the item it holds (item idx of the list of
\* response rid) and records where it came from: the page the response was
\* observed on and the number of that delivery on the page.  A discovery
\* entry {url, data} holds the whole response (idx = 0).
\* ------------------------------------------------------------------------
Entry(rid, idx, page, seq) == [rid |-> rid, idx |-> idx, page |-> page, seq |-> seq]

\* the raw records handed to process_attendance in a call of its own
RawPool ==
    <<recMaths1, recMaths2, recBadCount, recUnderscoreName, recUnderscoreCode, recOneKey>>

\* the raw record of an entry: an item of its response, or (rid = 0) a
\* record of the pool
RawItem(e) ==
    IF e.rid = 0 THEN RawPool[e.idx] ELSE Responses[e.rid].body.items[e.idx]

\* bool(v)
Truthy(v) ==
    CASE v.t = "str" -> v.s # <<>>
      [] v.t = "int" -> v.n # 0
      [] OTHER -> FALSE

Digits == <<"0","1","2","3","4","5","6","7","8","9">>

IsDigit(c) == \E d \in DOMAIN Digits : Digits[d] = c

DigitValue(c) == (CHOOSE d \in DOMAIN Digits : Digits[d] = c) - 1

RECURSIVE Strip(_)
\* str.strip(), for the blank character
Strip(s) ==
    IF s = <<>> THEN s
    ELSE IF Head(s) = " " THEN Strip(Tail(s))
    ELSE IF s[Len(s)] = " " THEN Strip(SubSeq(s, 1, Len(s) - 1))
    ELSE s

RECURSIVE DecimalValue(_)
DecimalValue(s) ==
    IF s = <<>> THEN 0 ELSE 10 * DecimalValue(SubSeq(s, 1, Len(s) - 1)) + DigitValue(s[Len(s)])

IsDecimal(s) == s # <<>> /\ \A i \in DOMAIN s : IsDigit(s[i])

\* int(v) raises for None and for a text that is no signed decimal number
IntRaises(v) ==
    CASE v.t = "int" -> FALSE
      [] v.t = "str" ->
            LET s == Strip(v.s)
            IN  ~ (IsDecimal(s) \/ (s # <<>> /\ Head(s) \in {"-", "+"} /\ IsDecimal(Tail(s))))
      [] OTHER -> TRUE

\* int(v), where it does not raise
ToInt(v) ==
    IF v.t = "int" THEN v.n
    ELSE LET s == Strip(v.s)
         IN  IF Head(s) = "-" THEN 0 - DecimalValue(Tail(s))
             ELSE IF Head(s) = "+" THEN DecimalValue(Tail(s))
             ELSE DecimalValue(s)

RECURSIVE NatToStr(_)
NatToStr(n) == IF n < 10 THEN <<Digits[n + 1]>> ELSE NatToStr(n \div 10) \o <<Digits[(n % 10) + 1]>>

\* str(v), as an f-string formats it
Format(v) ==
    CASE v.t = "str" -> v.s
      [] v.t = "int" -> IF v.n < 0 THEN <<"-">> \o NatToStr(0 - v.n) ELSE NatToStr(v.n)
      [] OTHER -> <<"N","o","n","e">>

\* ------------------------------------------------------------------------
\* ------------------------------------------------------------------------
\* Python numbers.  An int is an integer.  A float is an IEEE 754 double,
\* kept as the exact value  (-1)^neg * m * 2^e  with m a natural number of
\* any size: a little-endian sequence of limbs below 2^15.  Every float
\* operation computes the exact result and rounds it to 53 significant
\* bits, ties to even, as the hardware does.
\* ------------------------------------------------------------------------
Limb == 2^15

\* the element of a one-element set.  A value used more than once below is
\* bound as the element of a one-element set, so that it is computed once.
The(S) == CHOOSE x \in S : TRUE


RECURSIVE Big(_)
\* the natural number n as limbs
Big(n) == IF n = 0 THEN <<>> ELSE <<n % Limb>> \o Big(n \div Limb)

RECURSIVE Small(_)
\* the limbs a as an integer (for values that fit one)
Small(a) == IF a = <<>> THEN 0 ELSE Head(a) + Limb * Small(Tail(a))

RECURSIVE Trim(_)
Trim(a) == IF a # <<>> /\ a[Len(a)] = 0 THEN Trim(SubSeq(a, 1, Len(a) - 1)) ELSE a

Rest(a) == IF a = <<>> THEN <<>> ELSE Tail(a)

First(a) == IF a = <<>> THEN 0 ELSE Head(a)

RECURSIVE BigAddCarry(_, _, _)
BigAddCarry(a, b, c) ==
    IF a = <<>> /\ b = <<>> THEN (IF c = 0 THEN <<>> ELSE <<c>>)
    ELSE LET x == First(a) + First(b) + c
         IN  <<x % Limb>> \o BigAddCarry(Rest(a), Rest(b), x \div Limb)

BigAdd(a, b) == BigAddCarry(a, b, 0)

RECURSIVE BigSubBorrow(_, _, _)
BigSubBorrow(a, b, c) ==
    IF a = <<>> THEN <<>>
    ELSE LET x == Head(a) - First(b) - c
         IN  <<(x + Limb) % Limb>> \o BigSubBorrow(Tail(a), Rest(b), IF x < 0 THEN 1 ELSE 0)

\* a - b, for a >= b
BigSub(a, b) == Trim(BigSubBorrow(a, b, 0))

BigLess(a, b) ==
    IF Len(a) # Len(b) THEN Len(a) < Len(b)
    ELSE \E i \in DOMAIN a : a[i] < b[i] /\ \A j \in (i + 1)..Len(a) : a[j] = b[j]

RECURSIVE BigMulLimb(_, _, _)
\* a * k + c, for k and c below 2^15
BigMulLimb(a, k, c) ==
    IF a = <<>> THEN (IF c = 0 THEN <<>> ELSE <<c>>)
    ELSE LET x == Head(a) * k + c
         IN  <<x % Limb>> \o BigMulLimb(Tail(a), k, x \div Limb)

RECURSIVE BigMul(_, _)
BigMul(a, b) ==
    IF a = <<>> \/ b = <<>> THEN <<>>
    ELSE BigAdd(BigMulLimb(a, Head(b), 0), Trim(<<0>> \o BigMul(a, Tail(b))))

RECURSIVE Pow2(_)
Pow2(k) == IF k = 0 THEN 1 ELSE 2 * Pow2(k - 1)

\* a * 2^k
BigShl(a, k) ==
    IF a = <<>> THEN <<>>
    ELSE [i \in 1..(k \div 15) |-> 0] \o BigMulLimb(a, Pow2(k % 15), 0)

RECURSIVE BigDivLimb(_, _, _)
\* the limbs of (r * 2^(15 * Len(a)) + a) \div k, most significant limb
\* first, for r < k <= 2^15
BigDivLimb(a, k, r) ==
    IF a = <<>> THEN <<>>
    ELSE LET x == r * Limb + a[Len(a)]
         IN  <<x \div k>> \o BigDivLimb(SubSeq(a, 1, Len(a) - 1), k, x % k)

Reverse(a) == [i \in 1..Len(a) |-> a[Len(a) + 1 - i]]

\* a \div 2^k
BigShr(a, k) ==
    LET whole == k \div 15
    IN  IF whole >= Len(a) THEN <<>>
        ELSE Trim(Reverse(BigDivLimb(SubSeq(a, whole + 1, Len(a)), Pow2(k % 15), 0)))

RECURSIVE BitLenInt(_)
BitLenInt(n) == IF n = 0 THEN 0 ELSE 1 + BitLenInt(n \div 2)

BitLen(a) == IF a = <<>> THEN 0 ELSE 15 * (Len(a) - 1) + BitLenInt(a[Len(a)])


IsOdd(a) == a # <<>> /\ Head(a) % 2 = 1

RECURSIVE QuotientLimb(_, _, _, _)
\* r \div d for r < d * 2^15, found bit by bit from bit i down
QuotientLimb(r, d, i, q) ==
    IF i < 0 THEN q
    ELSE IF BigLess(r, BigMulLimb(d, q + Pow2(i), 0))
         THEN QuotientLimb(r, d, i - 1, q)
         ELSE QuotientLimb(r, d, i - 1, q + Pow2(i))

RECURSIVE BigDivModFrom(_, _, _, _)
\* long division of the limbs i, i - 1, ..., 1 of n, with r carried in:
\* the remainder, then the limbs of the quotient
BigDivModFrom(n, d, i, r) ==
    IF i = 0 THEN <<r>>
    ELSE The({ The({ BigDivModFrom(n, d, i - 1, BigSub(r1, BigMulLimb(d, q1, 0))) \o <<q1>> :
                     q1 \in {QuotientLimb(r1, d, 15 - 1, 0)} }) :
               r1 \in {Trim(<<n[i]>> \o r)} })

\* n \div d and n % d
BigDivMod(n, d) ==
    The({ [q |-> Trim(Tail(qr)), r |-> Head(qr)] : qr \in {BigDivModFrom(n, d, Len(n), <<>>)} })

Double(neg, m, e) == [neg |-> neg /\ m # <<>>, m |-> m, e |-> e]

\* the double nearest to (-1)^neg * n / d * 2^e
RoundToDouble(neg, n, d, e) ==
    IF n = <<>> THEN Double(FALSE, <<>>, 0)
    ELSE The({ The({ The({ The({ The({
             Double(neg,
                    IF low > half \/ (low = half /\ (qr.r # <<>> \/ IsOdd(m)))
                    THEN BigAdd(m, <<1>>) ELSE m,
                    e + k + extra) :
             low \in {Small(BigSub(qr.q, BigShl(m, extra)))}, half \in {Pow2(extra - 1)} }) :
             m \in {BigShr(qr.q, extra)} }) :
             extra \in {BitLen(qr.q) - 53} }) :
             qr \in {BigDivMod(IF k < 0 THEN BigShl(n, 0 - k) ELSE n,
                               IF k > 0 THEN BigShl(d, k) ELSE d)} }) :
             k \in {BitLen(n) - BitLen(d) - 54} })

\* float(i)
FromInt(i) == Double(i < 0, Big(IF i < 0 THEN 0 - i ELSE i), 0)

\* x / y
FloatDiv(x, y) == RoundToDouble(x.neg # y.neg, x.m, y.m, x.e - y.e)

\* x * y
FloatMul(x, y) == RoundToDouble(x.neg # y.neg, BigMul(x.m, y.m), <<1>>, x.e + y.e)

MinExp(x, y) == IF x.e < y.e THEN x.e ELSE y.e

\* the mantissa of x at the exponent e <= x.e
Aligned(x, e) == BigShl(x.m, x.e - e)

\* x + y
FloatAdd(x, y) ==
    The({ The({ IF x.neg = y.neg THEN RoundToDouble(x.neg, BigAdd(a, b), <<1>>, e)
                ELSE IF BigLess(a, b) THEN RoundToDouble(y.neg, BigSub(b, a), <<1>>, e)
                ELSE RoundToDouble(x.neg, BigSub(a, b), <<1>>, e) :
                a \in {Aligned(x, e)}, b \in {Aligned(y, e)} }) :
          e \in {MinExp(x, y)} })

\* x - y
FloatSub(x, y) == FloatAdd(x, Double(~y.neg, y.m, y.e))

\* x < y
FloatLess(x, y) ==
    CASE x.neg /\ ~y.neg -> TRUE
      [] ~x.neg /\ y.neg -> FALSE
      [] x.neg /\ y.neg -> BigLess(Aligned(y, MinExp(x, y)), Aligned(x, MinExp(x, y)))
      [] OTHER -> BigLess(Aligned(x, MinExp(x, y)), Aligned(y, MinExp(x, y)))

IsZero(x) == x.m = <<>>

\* the integer part of |x| and whether |x| is that integer
Whole(x) ==
    IF x.e >= 0 THEN [n |-> Small(BigShl(x.m, x.e)), exact |-> TRUE]
    ELSE The({ [n |-> Small(q), exact |-> BigShl(q, 0 - x.e) = x.m] : q \in {BigShr(x.m, 0 - x.e)} })

\* math.floor(x)
Floor(x) ==
    The({ IF x.neg THEN (IF w.exact THEN 0 - w.n ELSE 0 - w.n - 1) ELSE w.n : w \in {Whole(x)} })

\* math.ceil(x)
Ceil(x) ==
    The({ IF x.neg THEN 0 - w.n ELSE (IF w.exact THEN w.n ELSE w.n + 1) : w \in {Whole(x)} })

\* round(x, 2), as the number of hundredths of the result: the decimal
\* with two places nearest to the exact value of x, ties to even
Round2(x) ==
    The({ IF x.neg THEN 0 - h ELSE h :
          h \in { IF x.e >= 0 THEN Small(BigShl(n, x.e))
                  ELSE The({ The({ IF BigLess(half, rest) \/ (rest = half /\ IsOdd(q))
                                   THEN Small(q) + 1 ELSE Small(q) :
                                   rest \in {BigSub(n, BigShl(q, 0 - x.e))},
                                   half \in {BigShl(<<1>>, 0 - x.e - 1)} }) :
                             q \in {BigShr(n, 0 - x.e)} }) :
                  n \in {BigMulLimb(x.m, 100, 0)} } })

\* the float written with two decimal places, h hundredths
Hundredths(h) == FloatDiv(FromInt(h), FromInt(100))

\* round(present / total * 100, 2) if total > 0 else 0, in hundredths of a
\* percent; round() rounds the double it is given to the nearest hundredth.
\* Computed once for every pair of counts a record of the portal can have:
\* the counts int() returns for the values of its records, and 0, the
\* default of a missing count.
PercentageTable ==
    LET items == UNION {{Responses[r].body.items[i] : i \in DOMAIN Responses[r].body.items} :
                        r \in DOMAIN Responses}
                     \cup {RawPool[i] : i \in DOMAIN RawPool}
        values == UNION {{it.pairs[k].v : k \in DOMAIN it.pairs} : it \in items}
        counts == {0} \cup {ToInt(v) : v \in {v \in values : ~IntRaises(v)}}
    IN  [c \in {<<present, present + absent>> : present, absent \in counts} |->
            IF c[2] > 0
            THEN Round2(FloatMul(FloatDiv(FromInt(c[1]), FromInt(c[2])), FromInt(100)))
            ELSE 0]

\* the percentage cut off after its second decimal
TruncatedPercentage(present, total) ==
    IF total > 0 THEN (10000 * present) \div total ELSE 0

Percentage(present, total) == PercentageTable[<<present, total>>]

WireRecord(subject, subject_code, present, absent, faculty, term, keys, src) ==
    [subject |-> subject, subject_code |-> subject_code,
     present |-> present, absent |-> absent, total |-> present + absent,
     percentage |-> Percentage(present, present + absent),
     faculty |-> faculty, term |-> term, keys |-> keys, src |-> src]

backend_skip_names == {Text.unknown, Text.null, Text.none, <<>>}

\* One iteration of process_attendance's loop over raw_data: what it does
\* with the item of entry e when seen_subjects is seen.
\*   kind "skip": continue before the key was added
\*   kind "dup":  the key is in seen_subjects
\*   kind "fail": an exception after the key was added
\*   kind "emit": rec is appended
backend_item(e, seen) ==
    LET item == RawItem(e)
        d == item.pairs
        name0 == Get(d, Field.subject, Get(d, Field.subjectName, StrV(<<>>)))
        subject_code == Get(d, Field.subjectCode, Get(d, Field.code, StrV(<<>>)))
        noname == ~Truthy(name0) \/ Lower(name0.s) \in backend_skip_names
        subject_name == IF noname THEN subject_code ELSE name0
        key == Format(subject_name) \o <<"_">> \o Format(subject_code)
        present == Get(d, Field.presentCount, Get(d, Word.present, IntV(0)))
        absent == Get(d, Field.absentCount, Get(d, Word.absent, IntV(0)))
        facultName == Get(d, Field.facultName, NoneV)
        facultyName == Get(d, Field.facultyName, NoneV)
        hasFaculty == Truthy(facultName) \/ Truthy(facultyName)
        facultyV == Get(d, Field.facultName, Get(d, Field.facultyName, StrV(<<>>)))
        none == [kind |-> "skip", seen |-> seen, rec |-> <<>>]
    IN  IF ~item.isDict THEN none
        ELSE IF Truthy(name0) /\ name0.t # "str" THEN none
        ELSE IF noname /\ ~Truthy(subject_code) THEN none
        ELSE IF key \in seen THEN [none EXCEPT !.kind = "dup"]
        ELSE IF \/ IntRaises(present) \/ IntRaises(absent)
                \/ (hasFaculty /\ facultyV.t # "str")
             THEN [kind |-> "fail", seen |-> seen \cup {key}, rec |-> <<>>]
        ELSE [kind |-> "emit", seen |-> seen \cup {key},
              rec |-> <<WireRecord(subject_name, subject_code, ToInt(present), ToInt(absent),
                                   IF hasFaculty THEN Strip(facultyV.s) ELSE <<>>,
                                   NoneV,
                                   <<"subject", "subject_code", "present", "absent",
                                     "total", "percentage", "faculty">>,
                                   e)>>]

RECURSIVE process_attendance_loop(_, _, _, _)
process_attendance_loop(raw_data, i, seen, processed) ==
    IF i > Len(raw_data) THEN processed
    ELSE LET step == backend_item(raw_data[i], seen)
         IN  process_attendance_loop(raw_data, i + 1, step.seen, processed \o step.rec)

\* process_attendance(raw_data)
process_attendance(raw_data) == process_attendance_loop(raw_data, 1, {}, <<>>)

\* ERPConfig.field_mappings, its default
default_field_mappings ==
    <<Pair("subject", Field.subject), Pair("subject_code", Field.subjectCode),
      Pair("present", Field.presentCount), Pair("absent", Field.absentCount),
      Pair("total", <<"s","e","s","s","i","o","n">>),
      Pair("faculty", Field.facultName),
      Pair("term", <<"t","e","r","m","N","a","m","e">>)>>

\* One iteration of _process_attendance's loop: the record appended for the
\* item of entry e, or none when the iteration raises
scraper_item(mappings, e) ==
    LET item == RawItem(e)
        d == item.pairs
        present == Get(d, Get(mappings, "present", Field.presentCount), IntV(0))
        absent == Get(d, Get(mappings, "absent", Field.absentCount), IntV(0))
        subject == Get(d, Get(mappings, "subject", Field.subject), StrV(<<"U","n","k","n","o","w","n">>))
        subject_code == Get(d, Get(mappings, "subject_code", Field.subjectCode), StrV(<<>>))
        faculty == Get(d, Get(mappings, "faculty", Field.facultName), StrV(<<>>))
        term == Get(d, Get(mappings, "term", <<"t","e","r","m","N","a","m","e">>), StrV(<<>>))
    IN  IF \/ ~item.isDict
           \/ IntRaises(present) \/ IntRaises(absent)
           \/ faculty.t # "str"
        THEN <<>>
        ELSE <<WireRecord(subject, subject_code, ToInt(present), ToInt(absent),
                          Strip(faculty.s), term,
                          <<"subject", "subject_code", "present", "absent",
                            "total", "percentage", "faculty", "term">>,
                          e)>>

RECURSIVE scraper_process_attendance_loop(_, _, _)
scraper_process_attendance_loop(mappings, raw_data, i) ==
    IF i > Len(raw_data) THEN <<>>
    ELSE scraper_item(mappings, raw_data[i])
         \o scraper_process_attendance_loop(mappings, raw_data, i + 1)

\* UniversalScraper._process_attendance(raw_data)
scraper_process_attendance(mappings, raw_data) ==
    scraper_process_attendance_loop(mappings, raw_data, 1)

\* ------------------------------------------------------------------------
\* The fetch boundary and the discovery run as a state machine.
\*
\* Each fetch f is one call of
\*   kind "scraper":   unitrack.core.scraper.fetch_attendance(config),
\*                     reached from the CLI (via "cli") or the web server
\*                     (via "web");
\*   kind "backend":   backend.app.fetch_attendance_from_erp;
\*   kind "discovery": the auto-discovery block of the CLI's setup, which
\*                     runs ERPDiscovery.discover_login_selectors and
\*                     discover_attendance_api.
\* A Playwright call can raise (a missing element, a timeout); which calls
\* raise is the environment's choice.  Responses are delivered to the
\* registered callback while the main flow is inside a Playwright call.
\* ------------------------------------------------------------------------
Fetches == {1, 2}

\* responses the portal sends in one run: of a single fetch, and of two
\* overlapping fetches
MaxResponses == 2

MaxPairResponses == 1

VARIABLES
    fetch,          \* fetch[f]: the state of fetch f (a record, see NewFetch)
    captured_data,  \* captured_data[a]: accumulator a, a sequence of entries
    calc            \* the call of the AttendanceCalculator under way: its
                    \* arguments and what it has computed so far

vars == <<fetch, captured_data, calc>>

\* one accumulator shared by every fetch, as a module-level list would be
SharedAccumulatorOf(f) == 1

\* the accumulator the callback of fetch f appends to and its flow reads:
\* a list created by the call itself
AccumulatorOf(f) == f

Pending == [kind |-> "pending", error |-> "", records |-> <<>>]
ReturnList(records) == [kind |-> "list", error |-> "", records |-> records]
ReturnOk(records) == [kind |-> "ok", error |-> "", records |-> records]
ReturnError(msg) == [kind |-> "error", error |-> msg, records |-> <<>>]
ReturnNone == [kind |-> "none", error |-> "", records |-> <<>>]
Raises == [kind |-> "raise", error |-> "", records |-> <<>>]

Config(u, p, su, sp, sb, trigger, api) ==
    [username |-> u, password |-> p,
     username_input |-> su, password_input |-> sp, login_button |-> sb,
     attendance_trigger |-> trigger, attendance_api |-> api]

\* Selectors.is_complete()
is_complete(config) == config.username_input /\ config.password_input /\ config.login_button

NewFetch(kind, via, config) ==
    [kind |-> kind, via |-> via, config |-> config,
     pc |-> "start",
     i |-> 0,                    \* index in the candidate or trigger list
     playwright |-> "none",      \* none, started, stopped
     browser |-> "none",         \* none, open, closed
     listener |-> FALSE,         \* capture_response is registered on the page
     url |-> <<>>,               \* page.url once the form was submitted
     is_logged_in |-> FALSE,     \* passed the check of the post-submit URL
     delivered |-> 0,            \* responses observed on the page so far
     raised |-> FALSE,           \* an exception is propagating
     ret |-> Pending,            \* the value being returned
     result |-> Pending,         \* what the caller got
     said |-> "",                \* the last message the scraper printed
     navigated |-> FALSE,        \* page.goto was called
     filled_username |-> FALSE,  \* the username was filled into a field
     filled_password |-> FALSE,  \* the password was filled into a field
     submitted |-> FALSE,        \* the submit control was clicked
     attempted |-> 0,            \* triggers probed so far
     clicked |-> FALSE,          \* some trigger was clicked
     direct_request |-> FALSE,   \* the attendance API was requested directly
     attendance_json |-> "kept"] \* the cache file: kept, written, partial

Idle == [NewFetch("idle", "none", Config(TRUE, TRUE, TRUE, TRUE, TRUE, FALSE, <<>>))
            EXCEPT !.pc = "done"]

ScraperConfigs ==
    {Config(u, p, su, sp, sb, trigger, api) :
        u \in BOOLEAN, p \in BOOLEAN, su \in BOOLEAN, sp \in BOOLEAN, sb \in BOOLEAN,
        trigger \in BOOLEAN, api \in {<<>>, Value.stu_get_json}}

\* /api/fetch calls fetch_attendance_from_erp only with erp_url, username and
\* password all non-empty; the function takes no selectors
BackendConfig == Config(TRUE, TRUE, TRUE, TRUE, TRUE, FALSE, <<>>)

\* setup has no selectors yet: discover_login_selectors finds them
DiscoveryConfig == Config(TRUE, TRUE, FALSE, FALSE, FALSE, FALSE, <<>>)

FirstFetches ==
    {NewFetch("scraper", via, c) : via \in {"cli", "web"}, c \in ScraperConfigs}
    \cup {NewFetch("backend", "api", BackendConfig),
          NewFetch("discovery", "setup", DiscoveryConfig)}

\* no call of the calculator
NoCall == [op |-> "none"]

Init ==
    /\ fetch \in {[f \in Fetches |-> IF f = 1 THEN first ELSE Idle] : first \in FirstFetches}
    /\ captured_data = [a \in Fetches |-> <<>>]
    /\ calc = NoCall

Set(f, r) == fetch' = [fetch EXCEPT ![f] = r] /\ UNCHANGED calc

Done(r, result) == [r EXCEPT !.pc = "done", !.result = result]

\* the candidate lists of fetch_attendance_from_erp and the trigger lists
username_selectors_len == 4
password_selectors_len == 4
submit_selectors_len == 5
scraper_triggers_len == 3
backend_triggers_len == 5
discovery_triggers_len == 9

TriggerCount(kind) ==
    CASE kind = "scraper" -> scraper_triggers_len
      [] kind = "backend" -> backend_triggers_len
      [] OTHER -> discovery_triggers_len

\* ------------------------------------------------------------------------
\* Entry points of the core fetch.
\* ------------------------------------------------------------------------
\* cli/main.py fetch(): refuses an incomplete configuration, asks for a
\* missing password (the answer may be empty), then calls the core fetch
CliFetch(f) ==
    LET r == fetch[f]
    IN  /\ r.kind = "scraper" /\ r.via = "cli" /\ r.pc = "start"
        /\ IF ~is_complete(r.config) \/ ~r.config.username
           THEN Set(f, Done(r, ReturnNone))
           ELSE \E answered \in BOOLEAN :
                    Set(f, [r EXCEPT !.pc = "enter",
                                     !.config.password = r.config.password \/ answered])
        /\ UNCHANGED captured_data

\* web/server.py refresh_data() and get_attendance(refresh=true): call the
\* core fetch with the loaded configuration as it is
WebFetch(f) ==
    LET r == fetch[f]
    IN  /\ r.kind = "scraper" /\ r.via = "web" /\ r.pc = "start"
        /\ Set(f, [r EXCEPT !.pc = "enter"])
        /\ UNCHANGED captured_data

\* ------------------------------------------------------------------------
\* UniversalScraper
\* ------------------------------------------------------------------------
\* __enter__: start the driver, launch the browser, open the page.  An
\* exception leaves __enter__ and the with statement: __exit__ is not run
ScraperEnter(f) ==
    LET r == fetch[f]
    IN  /\ r.kind = "scraper" /\ r.pc = "enter"
        /\ \E o \in {"ok", "start_raises", "launch_raises", "new_page_raises"} :
              Set(f, CASE o = "ok" ->
                            [r EXCEPT !.playwright = "started", !.browser = "open",
                                      !.pc = "login"]
                       [] o = "start_raises" -> Done(r, Raises)
                       [] o = "launch_raises" ->
                            Done([r EXCEPT !.playwright = "started"], Raises)
                       [] OTHER ->
                            Done([r EXCEPT !.playwright = "started", !.browser = "open"],
                                 Raises))
        /\ UNCHANGED captured_data

\* what a failed login step leads to: UniversalScraper.login returns False
\* and fetch_attendance returns []; discover_attendance_api lets the
\* exception pass through its finally clause
LoginStepFailed(r) ==
    IF r.kind = "scraper"
    THEN [r EXCEPT !.pc = "exit", !.ret = ReturnList(<<>>), !.said = "Login error"]
    ELSE [r EXCEPT !.pc = "d_remove", !.raised = TRUE]

\* fetch_attendance: if not self._is_logged_in: login(), else straight on
\* to the capture; login() returns False without touching the page when a
\* credential is missing
ScraperLogin(f) ==
    LET r == fetch[f]
    IN  /\ r.kind = "scraper" /\ r.pc = "login"
        /\ IF r.is_logged_in
           THEN Set(f, [r EXCEPT !.pc = "register"])
           ELSE IF ~r.config.username \/ ~r.config.password
           THEN Set(f, [r EXCEPT !.pc = "exit", !.ret = ReturnList(<<>>),
                                 !.said = "Error: Credentials not configured!"])
           ELSE Set(f, [r EXCEPT !.pc = "goto"])
        /\ UNCHANGED captured_data

\* login(): page.goto(login_url); wait_for_load_state
ScraperGoto(f) ==
    LET r == fetch[f]
        n == [r EXCEPT !.navigated = TRUE]
    IN  /\ r.kind = "scraper" /\ r.pc = "goto"
        /\ \E ok \in BOOLEAN :
              Set(f, IF ok THEN [n EXCEPT !.pc = "fill_user"] ELSE LoginStepFailed(n))
        /\ UNCHANGED captured_data

\* page.fill(selectors.username_input, username): raises for an empty
\* selector, and may raise for any other
FillUsername(f) ==
    LET r == fetch[f]
    IN  /\ r.kind \in {"scraper", "discovery"} /\ r.pc = "fill_user"
        /\ \E ok \in BOOLEAN :
              Set(f, IF ok /\ r.config.username_input
                     THEN [r EXCEPT !.filled_username = TRUE, !.pc = "fill_pass"]
                     ELSE LoginStepFailed(r))
        /\ UNCHANGED captured_data

\* page.fill(selectors.password_input, password)
FillPassword(f) ==
    LET r == fetch[f]
    IN  /\ r.kind \in {"scraper", "discovery"} /\ r.pc = "fill_pass"
        /\ \E ok \in BOOLEAN :
              Set(f, IF ok /\ r.config.password_input
                     THEN [r EXCEPT !.filled_password = TRUE, !.pc = "submit"]
                     ELSE LoginStepFailed(r))
        /\ UNCHANGED captured_data

\* page.click(selectors.login_button); wait_for_load_state;
\* wait_for_timeout: the click or a wait may raise
Submit(f) ==
    LET r == fetch[f]
        c == [r EXCEPT !.submitted = TRUE]
    IN  /\ r.kind \in {"scraper", "discovery"} /\ r.pc = "submit"
        /\ \/ Set(f, LoginStepFailed(r))
           \/ /\ r.config.login_button
              /\ \/ Set(f, LoginStepFailed(c))
                 \/ \E u \in PostSubmitUrls :
                       Set(f, [c EXCEPT !.url = u, !.pc = "verify"])
        /\ UNCHANGED captured_data

\* UniversalScraper.login and discover_attendance_api: the login failed
\* when the URL still holds "login"
\* the check that lets every URL pass
never_on_login_page(url) == FALSE
still_on_login_page(url) == Contains(Lower(url), Text.login)

VerifyLogin(f) ==
    LET r == fetch[f]
    IN  /\ r.kind \in {"scraper", "discovery"} /\ r.pc = "verify"
        /\ IF still_on_login_page(r.url)
           THEN Set(f, IF r.kind = "scraper"
                       THEN [r EXCEPT !.pc = "exit", !.ret = ReturnList(<<>>),
                                      !.said = "Login failed - still on login page"]
                       ELSE [r EXCEPT !.pc = "d_remove", !.ret = ReturnNone])
           ELSE Set(f, IF r.kind = "scraper"
                       THEN [r EXCEPT !.is_logged_in = TRUE, !.pc = "register"]
                       ELSE [r EXCEPT !.is_logged_in = TRUE, !.pc = "probe", !.i = 1])
        /\ UNCHANGED captured_data

\* fetch_attendance: page.on("response", capture_response)
ScraperRegister(f) ==
    LET r == fetch[f]
    IN  /\ r.kind = "scraper" /\ r.pc = "register"
        /\ Set(f, IF r.config.attendance_trigger
                  THEN [r EXCEPT !.listener = TRUE, !.pc = "cfg_probe"]
                  ELSE [r EXCEPT !.listener = TRUE, !.pc = "probe", !.i = 1])
        /\ UNCHANGED captured_data

\* the configured attendance_trigger: locator(...).count(), with
\* no except clause around it
ScraperConfiguredProbe(f) ==
    LET r == fetch[f]
        a == [r EXCEPT !.attempted = 1, !.pc = "remove"]
    IN  /\ r.kind = "scraper" /\ r.pc = "cfg_probe"
        /\ \E o \in {"raises", "absent", "present"} :
              Set(f, CASE o = "raises" -> [a EXCEPT !.raised = TRUE]
                       [] o = "absent" -> a
                       [] OTHER -> [a EXCEPT !.pc = "cfg_click"])
        /\ UNCHANGED captured_data

\* trigger.first.click()
ScraperConfiguredClick(f) ==
    LET r == fetch[f]
    IN  /\ r.kind = "scraper" /\ r.pc = "cfg_click"
        /\ \E ok \in BOOLEAN :
              Set(f, IF ok
                     THEN [r EXCEPT !.clicked = TRUE, !.pc = "cfg_settle"]
                     ELSE [r EXCEPT !.raised = TRUE, !.pc = "remove"])
        /\ UNCHANGED captured_data

\* page.wait_for_timeout(5000)
ScraperConfiguredSettle(f) ==
    LET r == fetch[f]
    IN  /\ r.kind = "scraper" /\ r.pc = "cfg_settle"
        /\ \E ok \in BOOLEAN : Set(f, [r EXCEPT !.raised = ~ok, !.pc = "remove"])
        /\ UNCHANGED captured_data

\* ------------------------------------------------------------------------
\* The loop over the reveal-attendance triggers, of all three flows.
\* ------------------------------------------------------------------------
\* where the flow goes when the loop ends
AfterTriggers(kind) ==
    CASE kind = "scraper" -> "remove"
      [] kind = "backend" -> "direct"
      [] OTHER -> "d_remove"

\* the same trigger once more
SameTrigger(r) == [r EXCEPT !.pc = "probe"]

\* continue with the next trigger, or leave the loop after the last
NextTrigger(r) ==
    IF r.i < TriggerCount(r.kind)
    THEN [r EXCEPT !.pc = "probe", !.i = r.i + 1]
    ELSE [r EXCEPT !.pc = AfterTriggers(r.kind), !.i = 0]

\* elem = page.locator(t); elem.count() > 0 and elem.first.is_visible():
\* a miss is an absent or hidden element, or an exception (continue)
TriggerProbe(f) ==
    LET r == fetch[f]
        a == [r EXCEPT !.attempted = r.i]
    IN  /\ r.pc = "probe"
        /\ \E present \in BOOLEAN :
              Set(f, IF present THEN [a EXCEPT !.pc = "click"] ELSE NextTrigger(a))
        /\ UNCHANGED captured_data

\* elem.first.click(): an exception continues with the next trigger
TriggerClick(f) ==
    LET r == fetch[f]
    IN  /\ r.pc = "click"
        /\ \E ok \in BOOLEAN :
              Set(f, IF ok
                     THEN [r EXCEPT !.clicked = TRUE, !.pc = "settle"]
                     ELSE NextTrigger(r))
        /\ UNCHANGED captured_data

\* page.wait_for_timeout(3000); if captured_data: break
TriggerSettle(f) ==
    LET r == fetch[f]
    IN  /\ r.pc = "settle"
        /\ \E ok \in BOOLEAN :
              Set(f, IF ok /\ captured_data[AccumulatorOf(f)] # <<>>
                     THEN [r EXCEPT !.pc = AfterTriggers(r.kind), !.i = 0]
                     ELSE NextTrigger(r))
        /\ UNCHANGED captured_data

\* fetch_attendance, finally: page.remove_listener("response", ...)
ScraperRemove(f) ==
    LET r == fetch[f]
    IN  /\ r.kind = "scraper" /\ r.pc = "remove"
        /\ Set(f, [r EXCEPT !.listener = FALSE,
                            !.pc = IF r.raised THEN "exit" ELSE "process"])
        /\ UNCHANGED captured_data

\* fetch_attendance: process and save what was captured, or return [].
\* _save_attendance opens attendance.json for writing and dumps the
\* processed list: open may raise (the file is kept), the dump may raise
\* (the file is left partial)
ScraperProcess(f) ==
    LET r == fetch[f]
        captured == captured_data[AccumulatorOf(f)]
        processed == scraper_process_attendance(default_field_mappings, captured)
    IN  /\ r.kind = "scraper" /\ r.pc = "process"
        /\ IF captured # <<>>
           THEN \E saved \in {"written", "kept", "partial"} :
                    Set(f, IF saved = "written"
                           THEN [r EXCEPT !.ret = ReturnList(processed), !.pc = "exit",
                                          !.attendance_json = saved]
                           ELSE [r EXCEPT !.raised = TRUE, !.pc = "exit",
                                          !.attendance_json = saved])
           ELSE Set(f, [r EXCEPT !.ret = ReturnList(<<>>), !.pc = "exit",
                                 !.said = "No attendance data captured"])
        /\ UNCHANGED captured_data

\* __exit__: browser.close(), then playwright.stop(); an exception of
\* close() skips stop().  The caller gets the exception that left the
\* with block or __exit__, else the returned list
ScraperExit(f) ==
    LET r == fetch[f]
    IN  /\ r.kind = "scraper" /\ r.pc = "exit"
        /\ \E o \in {"ok", "close_raises", "stop_raises"} :
              Set(f, CASE o = "ok" ->
                            Done([r EXCEPT !.browser = "closed", !.playwright = "stopped"],
                                 IF r.raised THEN Raises ELSE r.ret)
                       [] o = "close_raises" -> Done(r, Raises)
                       [] OTHER -> Done([r EXCEPT !.browser = "closed"], Raises))
        /\ UNCHANGED captured_data

\* ------------------------------------------------------------------------
\* backend fetch_attendance_from_erp
\* ------------------------------------------------------------------------
\* Stopping the driver ends the browsers it launched
DriverStopped(r) ==
    [r EXCEPT !.playwright = "stopped",
              !.browser = IF r.browser = "open" THEN "closed" ELSE r.browser]

\* with sync_playwright() as p: launch, new_context, new_page, page.on.
\* These lie outside the try block: an exception leaves the function
\* through the with statement, which stops the driver
BackendLaunch(f) ==
    LET r == fetch[f]
    IN  /\ r.kind = "backend" /\ r.pc = "start"
        /\ \E o \in {"ok", "start_raises", "launch_raises", "new_page_raises"} :
              Set(f, CASE o = "ok" ->
                            [r EXCEPT !.playwright = "started", !.browser = "open",
                                      !.listener = TRUE, !.pc = "b_goto"]
                       [] o = "start_raises" -> Done(r, Raises)
                       [] o = "launch_raises" ->
                            Done(DriverStopped([r EXCEPT !.playwright = "started"]), Raises)
                       [] OTHER ->
                            Done(DriverStopped([r EXCEPT !.playwright = "started",
                                                         !.browser = "open"]), Raises))
        /\ UNCHANGED captured_data

\* page.goto(login_url, wait_until="networkidle")
BackendGoto(f) ==
    LET r == fetch[f]
        n == [r EXCEPT !.navigated = TRUE]
    IN  /\ r.kind = "backend" /\ r.pc = "b_goto"
        /\ \E ok \in BOOLEAN :
              Set(f, IF ok THEN [n EXCEPT !.pc = "b_user", !.i = 1]
                           ELSE [n EXCEPT !.pc = "b_except"])
        /\ UNCHANGED captured_data

\* one candidate of a selector loop: it is used (break), or it is absent or
\* raises (continue); after the last candidate the flow goes on anyway
Candidate(r, used, len, next) ==
    IF used \/ r.i >= len THEN [r EXCEPT !.pc = next, !.i = 1]
    ELSE [r EXCEPT !.i = r.i + 1]

\* whether the last candidate of a loop that fills a credential is used.
\* In a run of two overlapping fetches the login page holds both fields:
\* a candidate matches at the latest when the list ends
LastFills(r, len) ==
    IF r.i >= len /\ \A f \in Fetches : fetch[f].kind # "idle" THEN {TRUE} ELSE BOOLEAN

\* for selector in username_selectors
BackendFillUsername(f) ==
    LET r == fetch[f]
    IN  /\ r.kind = "backend" /\ r.pc = "b_user"
        /\ \E filled \in LastFills(r, username_selectors_len) :
              Set(f, Candidate([r EXCEPT !.filled_username = filled], filled,
                               username_selectors_len, "b_pass"))
        /\ UNCHANGED captured_data

\* for selector in password_selectors
BackendFillPassword(f) ==
    LET r == fetch[f]
    IN  /\ r.kind = "backend" /\ r.pc = "b_pass"
        /\ \E filled \in LastFills(r, password_selectors_len) :
              Set(f, Candidate([r EXCEPT !.filled_password = filled], filled,
                               password_selectors_len, "b_submit"))
        /\ UNCHANGED captured_data

\* for selector in submit_selectors
BackendSubmit(f) ==
    LET r == fetch[f]
    IN  /\ r.kind = "backend" /\ r.pc = "b_submit"
        /\ \E clicked \in BOOLEAN :
              Set(f, Candidate([r EXCEPT !.submitted = clicked], clicked,
                               submit_selectors_len, "b_wait"))
        /\ UNCHANGED captured_data

\* page.wait_for_load_state("networkidle"); page.wait_for_timeout(3000).
\* A page whose form was not submitted is still the login page
BackendWait(f) ==
    LET r == fetch[f]
    IN  /\ r.kind = "backend" /\ r.pc = "b_wait"
        /\ \/ Set(f, [r EXCEPT !.pc = "b_except"])
           \/ \E u \in (IF r.submitted THEN PostSubmitUrls ELSE {Url.login}) :
                 Set(f, [r EXCEPT !.url = u, !.pc = "b_verify"])
        /\ UNCHANGED captured_data

invalid_credentials(url) ==
    Contains(Lower(url), Text.login) /\ Contains(Lower(url), Text.error)

authentication_failed(url) == Contains(Lower(url), Text.authfailed)

\* the two checks of page.url; a failed login closes the browser and
\* returns its error (close() raising leads to the except clause).  The
\* student info read next is wrapped in its own try/except and changes
\* nothing modelled here
BackendVerify(f) ==
    LET r == fetch[f]
        failure == IF invalid_credentials(r.url) THEN "Invalid credentials"
                   ELSE "Authentication failed"
    IN  /\ r.kind = "backend" /\ r.pc = "b_verify"
        /\ IF invalid_credentials(r.url) \/ authentication_failed(r.url)
           THEN \E ok \in BOOLEAN :
                    Set(f, IF ok
                           THEN [r EXCEPT !.browser = "closed", !.ret = ReturnError(failure),
                                          !.pc = "b_with_exit"]
                           ELSE [r EXCEPT !.pc = "b_except"])
           ELSE Set(f, [r EXCEPT !.is_logged_in = TRUE, !.pc = "probe", !.i = 1])
        /\ UNCHANGED captured_data

\* if not captured_data: page.goto(api_url), exceptions passed over
BackendDirect(f) ==
    LET r == fetch[f]
    IN  /\ r.kind = "backend" /\ r.pc = "direct"
        /\ Set(f, [r EXCEPT !.direct_request = (captured_data[AccumulatorOf(f)] = <<>>),
                            !.pc = "b_close"])
        /\ UNCHANGED captured_data

no_data_error ==
    "No attendance data found. Make sure you're enrolled and have attendance records."

\* browser.close(); then the processed records, or the no-data error
BackendClose(f) ==
    LET r == fetch[f]
        captured == captured_data[AccumulatorOf(f)]
    IN  /\ r.kind = "backend" /\ r.pc = "b_close"
        /\ \E ok \in BOOLEAN :
              Set(f, IF ok
                     THEN [r EXCEPT !.browser = "closed", !.pc = "b_with_exit",
                                    !.ret = IF captured # <<>>
                                            THEN ReturnOk(process_attendance(captured))
                                            ELSE ReturnError(no_data_error)]
                     ELSE [r EXCEPT !.pc = "b_except"])
        /\ UNCHANGED captured_data

\* except Exception as e: browser.close(); return the text of e
BackendExcept(f) ==
    LET r == fetch[f]
    IN  /\ r.kind = "backend" /\ r.pc = "b_except"
        /\ \E ok \in BOOLEAN :
              Set(f, IF ok
                     THEN [r EXCEPT !.browser = "closed", !.ret = ReturnError("str(e)"),
                                    !.pc = "b_with_exit"]
                     ELSE [r EXCEPT !.raised = TRUE, !.pc = "b_with_exit"])
        /\ UNCHANGED captured_data

\* the end of the with statement stops the driver
BackendWithExit(f) ==
    LET r == fetch[f]
    IN  /\ r.kind = "backend" /\ r.pc = "b_with_exit"
        /\ Set(f, Done(DriverStopped(r), IF r.raised THEN Raises ELSE r.ret))
        /\ UNCHANGED captured_data

\* ------------------------------------------------------------------------
\* setup's auto-discovery: ERPDiscovery on a page of its own
\* ------------------------------------------------------------------------
\* with sync_playwright() as p: launch, new_page, inside setup's try
DiscoveryLaunch(f) ==
    LET r == fetch[f]
    IN  /\ r.kind = "discovery" /\ r.pc = "start"
        /\ \E o \in {"ok", "start_raises", "launch_raises", "new_page_raises"} :
              Set(f, CASE o = "ok" ->
                            [r EXCEPT !.playwright = "started", !.browser = "open",
                                      !.pc = "d_selectors"]
                       [] o = "start_raises" -> Done(r, ReturnError("Discovery error"))
                       [] o = "launch_raises" ->
                            [r EXCEPT !.playwright = "started", !.raised = TRUE,
                                      !.pc = "d_with_exit"]
                       [] OTHER ->
                            [r EXCEPT !.playwright = "started", !.browser = "open",
                                      !.raised = TRUE, !.pc = "d_with_exit"])
        /\ UNCHANGED captured_data

\* discover_login_selectors(url): goto, then the three cascades, each of
\* which finds a selector or leaves it empty; setup goes on to
\* discover_attendance_api when username_input was found
DiscoverSelectors(f) ==
    LET r == fetch[f]
        n == [r EXCEPT !.navigated = TRUE]
    IN  /\ r.kind = "discovery" /\ r.pc = "d_selectors"
        /\ \/ Set(f, [n EXCEPT !.raised = TRUE, !.pc = "d_with_exit"])
           \/ \E su \in BOOLEAN, sp \in BOOLEAN, sb \in BOOLEAN :
                 Set(f, [n EXCEPT !.config.username_input = su,
                                  !.config.password_input = sp,
                                  !.config.login_button = sb,
                                  !.pc = IF su THEN "d_register" ELSE "d_close"])
        /\ UNCHANGED captured_data

\* discover_attendance_api: page.on("response", capture_response)
DiscoveryRegister(f) ==
    LET r == fetch[f]
    IN  /\ r.kind = "discovery" /\ r.pc = "d_register"
        /\ Set(f, [r EXCEPT !.listener = TRUE, !.pc = "fill_user"])
        /\ UNCHANGED captured_data

\* discover_attendance_api, finally: page.remove_listener(...)
DiscoveryRemove(f) ==
    LET r == fetch[f]
    IN  /\ r.kind = "discovery" /\ r.pc = "d_remove"
        /\ Set(f, [r EXCEPT !.listener = FALSE,
                            !.pc = IF r.raised THEN "d_with_exit" ELSE "d_close"])
        /\ UNCHANGED captured_data

\* setup: browser.close()
DiscoveryClose(f) ==
    LET r == fetch[f]
    IN  /\ r.kind = "discovery" /\ r.pc = "d_close"
        /\ \E ok \in BOOLEAN :
              Set(f, IF ok THEN [r EXCEPT !.browser = "closed", !.pc = "d_with_exit"]
                           ELSE [r EXCEPT !.raised = TRUE, !.pc = "d_with_exit"])
        /\ UNCHANGED captured_data

\* the end of the with statement, and setup's except clause
DiscoveryWithExit(f) ==
    LET r == fetch[f]
    IN  /\ r.kind = "discovery" /\ r.pc = "d_with_exit"
        /\ Set(f, Done(DriverStopped(r),
                       IF r.raised THEN ReturnError("Discovery error") ELSE ReturnNone))
        /\ UNCHANGED captured_data

\* ------------------------------------------------------------------------
\* The browser delivers a response observed on the page of fetch f to the
\* callback registered there.
\* ------------------------------------------------------------------------
\* what each callback appends for each response of the portal
BackendAppends == [rid \in DOMAIN Responses |-> capture_response_backend(Responses[rid])]

ScraperAppends ==
    [api \in {<<>>, Value.stu_get_json} |->
        [rid \in DOMAIN Responses |-> capture_response_scraper(api, Responses[rid])]]

DiscoveryAppends == [rid \in DOMAIN Responses |-> capture_response_discovery(Responses[rid])]

Sniff(r, rid) ==
    CASE r.kind = "scraper" -> ScraperAppends[r.config.attendance_api][rid]
      [] r.kind = "backend" -> BackendAppends[rid]
      [] OTHER -> DiscoveryAppends[rid]

RECURSIVE SumDelivered(_)
SumDelivered(fs) ==
    IF fs = {} THEN 0
    ELSE LET f == CHOOSE g \in fs : TRUE IN fetch[f].delivered + SumDelivered(fs \ {f})

ResponseBudget ==
    IF \A f \in Fetches : fetch[f].kind # "idle" THEN MaxPairResponses ELSE MaxResponses

Deliver(f) ==
    LET r == fetch[f]
    IN  /\ r.listener /\ r.browser = "open"
        /\ r.pc \notin {"b_with_exit", "d_with_exit", "done"}
        /\ SumDelivered(Fetches) < ResponseBudget
        /\ \E rid \in DOMAIN Responses :
              LET appended == Sniff(r, rid)
                  entries == [k \in DOMAIN appended |->
                                 Entry(rid, appended[k], f, r.delivered + 1)]
              IN  captured_data' =
                      [captured_data EXCEPT ![AccumulatorOf(f)] = @ \o entries]
        /\ Set(f, [r EXCEPT !.delivered = r.delivered + 1])

Next ==
    \E f \in Fetches :
        \/ CliFetch(f) \/ WebFetch(f)
        \/ ScraperEnter(f) \/ ScraperLogin(f) \/ ScraperGoto(f)
        \/ FillUsername(f) \/ FillPassword(f) \/ Submit(f) \/ VerifyLogin(f)
        \/ ScraperRegister(f)
        \/ ScraperConfiguredProbe(f) \/ ScraperConfiguredClick(f) \/ ScraperConfiguredSettle(f)
        \/ TriggerProbe(f) \/ TriggerClick(f) \/ TriggerSettle(f)
        \/ ScraperRemove(f) \/ ScraperProcess(f) \/ ScraperExit(f)
        \/ BackendLaunch(f) \/ BackendGoto(f)
        \/ BackendFillUsername(f) \/ BackendFillPassword(f) \/ BackendSubmit(f)
        \/ BackendWait(f) \/ BackendVerify(f) \/ BackendDirect(f)
        \/ BackendClose(f) \/ BackendExcept(f) \/ BackendWithExit(f)
        \/ DiscoveryLaunch(f) \/ DiscoverSelectors(f) \/ DiscoveryRegister(f)
        \/ DiscoveryRemove(f) \/ DiscoveryClose(f) \/ DiscoveryWithExit(f)
        \/ Deliver(f)

Spec == Init /\ [][Next]_vars

\* one step of the flow of fetch f itself: every action but a delivery
FlowStep(f) ==
    \/ CliFetch(f) \/ WebFetch(f)
    \/ ScraperEnter(f) \/ ScraperLogin(f) \/ ScraperGoto(f)
    \/ FillUsername(f) \/ FillPassword(f) \/ Submit(f) \/ VerifyLogin(f)
    \/ ScraperRegister(f)
    \/ ScraperConfiguredProbe(f) \/ ScraperConfiguredClick(f) \/ ScraperConfiguredSettle(f)
    \/ TriggerProbe(f) \/ TriggerClick(f) \/ TriggerSettle(f)
    \/ ScraperRemove(f) \/ ScraperProcess(f) \/ ScraperExit(f)
    \/ BackendLaunch(f) \/ BackendGoto(f)
    \/ BackendFillUsername(f) \/ BackendFillPassword(f) \/ BackendSubmit(f)
    \/ BackendWait(f) \/ BackendVerify(f) \/ BackendDirect(f)
    \/ BackendClose(f) \/ BackendExcept(f) \/ BackendWithExit(f)
    \/ DiscoveryLaunch(f) \/ DiscoverSelectors(f) \/ DiscoveryRegister(f)
    \/ DiscoveryRemove(f) \/ DiscoveryClose(f) \/ DiscoveryWithExit(f)

\* The flows are straight-line synchronous code: each statement is a call
\* of the browser that returns or raises once its wait completes or times
\* out, and the interpreter then runs the next statement.  No fairness is
\* stated for the deliveries of responses
SpecFair == Init /\ [][Next]_vars /\ \A f \in Fetches : WF_vars(FlowStep(f))

\* Two overlapping fetches: the second through fetch_attendance(config) with
\* a complete configuration or through fetch_attendance_from_erp, the first
\* through any of the entry points
PairFetches ==
    {NewFetch("scraper", "web", Config(TRUE, TRUE, TRUE, TRUE, TRUE, FALSE, <<>>)),
     NewFetch("backend", "api", BackendConfig)}

FirstPairFetches ==
    PairFetches
    \cup {NewFetch("scraper", "cli", Config(TRUE, TRUE, TRUE, TRUE, TRUE, TRUE, <<>>)),
          NewFetch("discovery", "setup", DiscoveryConfig)}

InitPair ==
    /\ fetch \in {[f \in Fetches |-> IF f = 1 THEN first ELSE second] :
                    first \in FirstPairFetches, second \in PairFetches}
    /\ captured_data = [a \in Fetches |-> <<>>]
    /\ calc = NoCall

SpecPair == InitPair /\ [][Next]_vars

\* ------------------------------------------------------------------------
\* The attendance calculator (core/calculator.py) and the thresholds of the
\* configuration (core/config.py).  A threshold, a buffer and the
\* percentage of a record are floats with two decimals: the state holds
\* them in hundredths, and the calculator computes with the doubles.
\* ------------------------------------------------------------------------
Status == [SAFE |-> "SAFE", CRITICAL |-> "CRITICAL", LOW |-> "LOW"]

\* custom: the (keyword, threshold) pairs of the dict, in insertion order
Thresholds(default, safe_buffer, custom) ==
    [default |-> default, safe_buffer |-> safe_buffer, custom |-> custom]

\* Thresholds.get_threshold; a str is false when it is empty
get_threshold(thresholds, subject_code, subject_name) ==
    LET custom == thresholds.custom
        matches == {i \in DOMAIN custom : Contains(Upper(subject_name), Upper(custom[i].k))}
    IN  IF subject_code # <<>> /\ HasKey(custom, subject_code)
        THEN Get(custom, subject_code, thresholds.default)
        ELSE IF subject_name # <<>> /\ matches # {}
        THEN custom[CHOOSE i \in matches : \A j \in matches : i <= j].v
        ELSE thresholds.default

\* the bands with their lower bounds left out
exclusive_status(thresholds, percentage, threshold) ==
    LET safe_threshold == FloatAdd(threshold, Hundredths(thresholds.safe_buffer))
    IN  IF FloatLess(safe_threshold, percentage) THEN Status.SAFE
        ELSE IF FloatLess(threshold, percentage) THEN Status.CRITICAL
        ELSE Status.LOW

\* percentage and threshold are doubles
calculate_status(thresholds, percentage, threshold) ==
    The({ IF ~FloatLess(percentage, safe_threshold) THEN Status.SAFE
          ELSE IF ~FloatLess(percentage, threshold) THEN Status.CRITICAL
          ELSE Status.LOW :
          safe_threshold \in {FloatAdd(threshold, Hundredths(thresholds.safe_buffer))} })

\* attended and conducted are ints, threshold is a double
calculate_classes_needed(attended, conducted, threshold) ==
    IF conducted = 0 THEN 0
    ELSE The({ IF ~FloatLess(current, threshold_decimal) THEN 0
               ELSE The({ IF IsZero(denominator) THEN 0
                          ELSE Ceil(FloatDiv(numerator, denominator)) :
                          numerator \in {FloatSub(FloatMul(threshold_decimal, FromInt(conducted)),
                                                  FromInt(attended))},
                          denominator \in {FloatSub(FromInt(1), threshold_decimal)} }) :
               threshold_decimal \in {FloatDiv(threshold, FromInt(100))},
               current \in {FloatDiv(FromInt(attended), FromInt(conducted))} })

\* the quotient rounded up instead of down
ceiling_classes_can_miss(attended, conducted, threshold) ==
    IF conducted = 0 THEN 0
    ELSE The({ IF FloatLess(current, threshold_decimal) THEN 0
               ELSE The({ IF IsZero(denominator) THEN 0
                          ELSE Ceil(FloatDiv(numerator, denominator)) :
                          numerator \in {FloatSub(FromInt(attended),
                                                  FloatMul(threshold_decimal, FromInt(conducted)))},
                          denominator \in {threshold_decimal} }) :
               threshold_decimal \in {FloatDiv(threshold, FromInt(100))},
               current \in {FloatDiv(FromInt(attended), FromInt(conducted))} })

calculate_classes_can_miss(attended, conducted, threshold) ==
    IF conducted = 0 THEN 0
    ELSE The({ IF FloatLess(current, threshold_decimal) THEN 0
               ELSE The({ IF IsZero(denominator) THEN 0
                          ELSE Floor(FloatDiv(numerator, denominator)) :
                          numerator \in {FloatSub(FromInt(attended),
                                                  FloatMul(threshold_decimal, FromInt(conducted)))},
                          denominator \in {threshold_decimal} }) :
               threshold_decimal \in {FloatDiv(threshold, FromInt(100))},
               current \in {FloatDiv(FromInt(attended), FromInt(conducted))} })

\* a subject dict as analyze_subject reads it; percentage 0 is also what a
\* dict without the key gives
SubjectData(subject, subject_code, present, total, percentage) ==
    [subject |-> subject, subject_code |-> subject_code, present |-> present,
     total |-> total, percentage |-> percentage, faculty |-> <<>>, term |-> <<>>]

\* SubjectAnalysis.to_dict() of analyze_subject(subject_data); the message
\* is held as its text around the number it shows
analyze_subject(thresholds, subject_data) ==
    The({ The({
        [subject |-> subject_data.subject, subject_code |-> subject_data.subject_code,
         present |-> present, total |-> total, percentage |-> Round2(percentage),
         status |-> status, threshold |-> threshold,
         classes_needed |-> classes_needed, classes_can_miss |-> classes_can_miss,
         message |-> CASE status = Status.SAFE ->
                            <<"Safe! Can miss ", classes_can_miss, " more class(es)">>
                       [] status = Status.CRITICAL ->
                            <<"Critical! Can only miss ", classes_can_miss, " class(es)">>
                       [] OTHER ->
                            <<"Low! Need to attend ", classes_needed, " consecutive class(es)">>,
         faculty |-> subject_data.faculty, term |-> subject_data.term] :
        status \in {calculate_status(thresholds, percentage, Hundredths(threshold))},
        classes_needed \in {calculate_classes_needed(present, total, Hundredths(threshold))},
        classes_can_miss \in {calculate_classes_can_miss(present, total, Hundredths(threshold))} }) :
        present \in {subject_data.present},
        total \in {subject_data.total},
        threshold \in {get_threshold(thresholds, subject_data.subject_code, subject_data.subject)},
        percentage \in {IF subject_data.percentage = 0 /\ subject_data.total > 0
                        THEN FloatMul(FloatDiv(FromInt(subject_data.present),
                                               FromInt(subject_data.total)), FromInt(100))
                        ELSE Hundredths(subject_data.percentage)} })

\* the first element's value only
FirstOf(analyzed, field) == IF analyzed = <<>> THEN 0 ELSE analyzed[1][field]

RECURSIVE SumOf(_, _)
SumOf(analyzed, field) ==
    IF analyzed = <<>> THEN 0 ELSE analyzed[1][field] + SumOf(Tail(analyzed), field)

\* the number of analyses with the status
CountOf(analyzed, status) == Cardinality({i \in DOMAIN analyzed : analyzed[i].status = status})

analyze_all(thresholds, subjects) ==
    The({ The({ The({
        [subjects |-> analyzed,
         summary |->
            [total_subjects |-> Len(subjects),
             safe_count |-> CountOf(analyzed, Status.SAFE),
             critical_count |-> CountOf(analyzed, Status.CRITICAL),
             low_count |-> Len(analyzed) - CountOf(analyzed, Status.SAFE)
                                         - CountOf(analyzed, Status.CRITICAL),
             overall_present |-> total_present,
             overall_total |-> total_conducted,
             overall_percentage |-> Round2(overall_percentage),
             overall_status |-> calculate_status(thresholds, overall_percentage,
                                                 Hundredths(thresholds.default))] ] :
        overall_percentage \in
            {IF total_conducted > 0
             THEN FloatMul(FloatDiv(FromInt(total_present), FromInt(total_conducted)), FromInt(100))
             ELSE FromInt(0)} }) :
        total_present \in {SumOf(analyzed, "present")},
        total_conducted \in {SumOf(analyzed, "total")} }) :
        analyzed \in {[i \in DOMAIN subjects |-> analyze_subject(thresholds, subjects[i])]} })

\* the sort key of get_priority_subjects
status_priority(x) ==
    <<CASE x.status = Status.LOW -> 0 [] x.status = Status.CRITICAL -> 1 [] OTHER -> 2,
      x.percentage>>

\* the first components compared only
RankLess(a, b) == a[1] < b[1]

\* tuple comparison: a < b
KeyLess(a, b) == a[1] < b[1] \/ (a[1] = b[1] /\ a[2] < b[2])

\* sorted(subjects, key=...): a stable sort, each element placed behind
\* the elements whose key is not greater
RECURSIVE sorted(_)
sorted(subjects) ==
    IF subjects = <<>> THEN <<>>
    ELSE The({ The({ SubSeq(before, 1, place) \o <<x>> \o SubSeq(before, place + 1, Len(before)) :
                     place \in {Cardinality({i \in DOMAIN before :
                                    ~KeyLess(status_priority(x), status_priority(before[i]))})} }) :
               before \in {sorted(SubSeq(subjects, 1, Len(subjects) - 1))},
               x \in {subjects[Len(subjects)]} })

\* sorted_subjects[:top_n]; a negative top_n counts from the end
get_priority_subjects(analysis, top_n) ==
    The({ SubSeq(sorted_subjects, 1,
                 IF top_n >= 0 THEN (IF top_n < Len(sorted_subjects) THEN top_n ELSE Len(sorted_subjects))
                 ELSE (IF Len(sorted_subjects) + top_n > 0 THEN Len(sorted_subjects) + top_n ELSE 0)) :
          sorted_subjects \in {sorted(analysis.subjects)} })

\* --- the calls the calculator is given ---
\* calculate_status for two percentages, one after the other, under the
\* same threshold and buffer: the percentages at and next to the bounds of
\* the bands
StatusCalls ==
    LET percentages(t, b) == {bound + d : bound \in {t, t + b}, d \in {-25, 0, 25}}
        calls(t, b) ==
            {[op |-> "calculate_status", thresholds |-> Thresholds(7500, b, <<>>),
              threshold |-> t, percentages |-> <<p[1], p[2]>>, statuses |-> <<>>] :
                p \in {p \in percentages(t, b) \X percentages(t, b) : p[1] < p[2]}}
    IN  UNION {calls(t, b) : t \in {0, 6250, 7500, 10000}, b \in {0, 250, 1000}}

\* the longest custom mapping
MaxCustom == 2

\* get_threshold under the custom mappings of up to MaxCustom of the
\* keywords the user gave at the prompt (one of them the empty answer)
ThresholdCalls ==
    LET entries == {Pair(<<>>, 5000), Pair(<<"T","Y","L">>, 9000),
                    Pair(<<"L","a","b">>, 6000), Pair(Value.MA101, 8000)}
        mappings == {c \in UNION {[1..n -> entries] : n \in 0..MaxCustom} :
                        \A i \in DOMAIN c, j \in DOMAIN c : i # j => c[i].k # c[j].k}
    IN  {[op |-> "get_threshold", thresholds |-> Thresholds(7500, 1000, custom),
          subject_code |-> code, subject_name |-> name, returned |-> FALSE, threshold |-> 0] :
            custom \in mappings,
            code \in {<<>>, Value.MA101, <<"T","Y","L">>},
            name \in {<<>>, Value.Maths, <<"t","y","l"," ","L","A","B">>}}

\* the most classes of a subject, but for the two subjects with 100 and
\* 90 classes
MaxClasses == 5

\* calculate_classes_needed and calculate_classes_can_miss
ClassesCalls ==
    {[op |-> op, attended |-> c[1], conducted |-> c[2], threshold |-> t,
      returned |-> FALSE, classes |-> 0] :
        op \in {"calculate_classes_needed", "calculate_classes_can_miss"},
        c \in {c \in (0..MaxClasses) \X (0..MaxClasses) : c[1] <= c[2]}
                \cup {<<50, 100>>, <<70, 90>>},
        t \in {0, 7500, 8000, 10000}}

CalculateClassesNeeded ==
    /\ calc.op = "calculate_classes_needed"
    /\ ~calc.returned
    /\ calc' = [calc EXCEPT !.returned = TRUE,
                            !.classes = calculate_classes_needed(
                                            calc.attended, calc.conducted,
                                            Hundredths(calc.threshold))]
    /\ UNCHANGED <<fetch, captured_data>>

CalculateClassesCanMiss ==
    /\ calc.op = "calculate_classes_can_miss"
    /\ ~calc.returned
    /\ calc' = [calc EXCEPT !.returned = TRUE,
                            !.classes = calculate_classes_can_miss(
                                            calc.attended, calc.conducted,
                                            Hundredths(calc.threshold))]
    /\ UNCHANGED <<fetch, captured_data>>

\* the longest list of subjects, and the largest top_n
MaxSubjects == 2
MaxTopN == 3

\* analyze_all for the lists of up to MaxSubjects of six subjects, under
\* the default thresholds and under a default of 66.67 with a custom
\* threshold for the subjects named Lab
AnalyzeCalls ==
    LET pool == {SubjectData(Value.Maths, Value.MA101, 70, 90, 7778),
                 SubjectData(Value.Physics, <<>>, 2, 3, 0),
                 SubjectData(<<"t","y","l"," ","L","A","B">>, <<>>, 0, 0, 0),
                 SubjectData(<<"C","h","e","m">>, <<>>, 7, 9, 7778),
                 SubjectData(<<"B","i","o">>, <<>>, 9, 10, 9000),
                 SubjectData(<<"S","t","a","t">>, <<>>, 2, 3, 6667)}
    IN  {[op |-> "analyze_all", pc |-> "start", thresholds |-> thresholds,
          subjects |-> subjects, analysis |-> <<>>, again |-> <<>>,
          top_n |-> 0, priority |-> <<>>] :
            thresholds \in {Thresholds(7500, 1000, <<>>),
                            Thresholds(6667, 1000, <<Pair(<<"L","a","b">>, 6000)>>)},
            subjects \in UNION {[1..n -> pool] : n \in 0..MaxSubjects}}

AnalyzeAll ==
    /\ calc.op = "analyze_all" /\ calc.pc = "start"
    /\ calc' = [calc EXCEPT !.pc = "analyzed",
                            !.analysis = analyze_all(calc.thresholds, calc.subjects)]
    /\ UNCHANGED <<fetch, captured_data>>

\* analyze_all again, on the subjects of its own result
AnalyzeAgain ==
    /\ calc.op = "analyze_all" /\ calc.pc = "analyzed"
    /\ calc' = [calc EXCEPT !.pc = "analyzed again",
                            !.again = analyze_all(calc.thresholds, calc.analysis.subjects)]
    /\ UNCHANGED <<fetch, captured_data>>

GetPrioritySubjects ==
    /\ calc.op = "analyze_all" /\ calc.pc = "analyzed"
    /\ \E top_n \in 0..MaxTopN :
           calc' = [calc EXCEPT !.pc = "prioritized", !.top_n = top_n,
                                !.priority = get_priority_subjects(calc.analysis, top_n)]
    /\ UNCHANGED <<fetch, captured_data>>

GetThreshold ==
    /\ calc.op = "get_threshold"
    /\ ~calc.returned
    /\ calc' = [calc EXCEPT !.returned = TRUE,
                            !.threshold = get_threshold(calc.thresholds, calc.subject_code,
                                                        calc.subject_name)]
    /\ UNCHANGED <<fetch, captured_data>>

CalculateStatus ==
    /\ calc.op = "calculate_status"
    /\ Len(calc.statuses) < Len(calc.percentages)
    /\ calc' = [calc EXCEPT !.statuses =
                    Append(@, calculate_status(calc.thresholds,
                                               Hundredths(calc.percentages[Len(@) + 1]),
                                               Hundredths(calc.threshold)))]
    /\ UNCHANGED <<fetch, captured_data>>

InitCalc ==
    /\ fetch = [f \in Fetches |-> Idle]
    /\ captured_data = [a \in Fetches |-> <<>>]
    /\ calc \in StatusCalls \cup ThresholdCalls \cup ClassesCalls \cup AnalyzeCalls

NextCalc ==
    \/ CalculateStatus
    \/ GetThreshold
    \/ CalculateClassesNeeded
    \/ CalculateClassesCanMiss
    \/ AnalyzeAll
    \/ AnalyzeAgain
    \/ GetPrioritySubjects

SpecCalc == InitCalc /\ [][NextCalc]_vars

\* ------------------------------------------------------------------------
\* Setup: ERPDiscovery.discover_login_selectors, discover_field_mappings
\* and the saving of the configuration, as calls of their own.
\* ------------------------------------------------------------------------
USERNAME_PATTERNS ==
    << "input[name*='user']", "input[name*='email']", "input[name*='login']",
       "input[name*='username']", "input[name='j_username']", "input[id*='user']",
       "input[id*='email']", "input[id*='login']", "input[type='email']",
       "input[type='text'][autocomplete*='user']",
       "#username", "#email", "#login", "#userId" >>

PASSWORD_PATTERNS ==
    << "input[type='password']", "input[name*='pass']", "input[name*='pwd']",
       "input[name='j_password']", "input[id*='pass']", "input[id*='pwd']",
       "#password", "#pass", "#pwd" >>

LOGIN_BUTTON_PATTERNS ==
    << "button[type='submit']", "input[type='submit']", "button[name*='login']",
       "button[id*='login']", "button[class*='login']", "input[value*='Login']",
       "input[value*='Sign']", "button:has-text('Login')", "button:has-text('Sign In')",
       "button:has-text('Submit')", "#loginBtn", "#submitBtn", ".login-btn" >>

\* the three loops of discover_login_selectors, by the key they set
LoginPatterns ==
    [username_input |-> USERNAME_PATTERNS,
     password_input |-> PASSWORD_PATTERNS,
     login_button |-> LOGIN_BUTTON_PATTERNS]

\* What the page answers for one pattern: whether locator(pattern).count()
\* raises, the elements the pattern resolves to (each visible or not), and
\* whether is_visible() of the first raises
Probe(count_raises, elements, visible_raises) ==
    [count_raises |-> count_raises, elements |-> elements, visible_raises |-> visible_raises]

NoElement == Probe(FALSE, <<>>, FALSE)

ElementProbes ==
    {Probe(FALSE, <<TRUE>>, FALSE), Probe(FALSE, <<FALSE>>, FALSE),
     Probe(FALSE, <<FALSE, TRUE>>, FALSE),
     Probe(TRUE, <<TRUE>>, FALSE), Probe(FALSE, <<TRUE>>, TRUE)}

\* pattern i whatever the page answers
take_pattern(patterns, probes, i) == [selector |-> patterns[i], probed |-> i]

\* one loop, from pattern i on: the selector it sets and how many patterns
\* it has probed.  count() > 0, then is_visible() of the first element;
\* an exception of either continues with the next pattern
RECURSIVE find_selector(_, _, _)
find_selector(patterns, probes, i) ==
    IF i > Len(patterns) THEN [selector |-> "", probed |-> Len(patterns)]
    ELSE IF /\ ~probes[i].count_raises
            /\ Len(probes[i].elements) > 0
            /\ ~probes[i].visible_raises
            /\ probes[i].elements[1]
         THEN [selector |-> patterns[i], probed |-> i]
         ELSE find_selector(patterns, probes, i + 1)

\* discover_login_selectors(url): goto and wait_for_load_state stand
\* outside every try block; then the three loops
discover_login_selectors(page) ==
    IF ~page.loads THEN [raised |-> TRUE, found |-> <<>>]
    ELSE [raised |-> FALSE,
          found |-> [key \in DOMAIN LoginPatterns |->
                        find_selector(LoginPatterns[key], page.probes[key], 1)]]

\* The pages of the calls: at most MaxPageElements patterns, of all three
\* lists together, resolve to something or raise; they are among the first
\* LeadingPatterns of their list, or its last
MaxPageElements == 2
LeadingPatterns == 3

PatternPlaces ==
    UNION {{<<key, i>> : i \in {i \in DOMAIN LoginPatterns[key] :
                                   i <= LeadingPatterns \/ i = Len(LoginPatterns[key])}} :
              key \in DOMAIN LoginPatterns}

RECURSIVE PlacesUpTo(_)
PlacesUpTo(n) ==
    IF n = 0 THEN {{}}
    ELSE {some \cup {pl} : some \in PlacesUpTo(n - 1), pl \in PatternPlaces} \cup {{}}

LoginPages ==
    {[loads |-> TRUE,
      probes |-> [key \in DOMAIN LoginPatterns |->
                    [i \in 1..Len(LoginPatterns[key]) |->
                        IF <<key, i>> \in DOMAIN answers THEN answers[<<key, i>>]
                        ELSE NoElement]]] :
        answers \in UNION {[places -> ElementProbes] : places \in PlacesUpTo(MaxPageElements)}}
    \cup {[loads |-> FALSE, probes |-> <<>>]}

SelectorCalls ==
    {[op |-> "discover_login_selectors", page |-> page, ret |-> Pending] : page \in LoginPages}

DiscoverLoginSelectors ==
    /\ calc.op = "discover_login_selectors" /\ calc.ret = Pending
    /\ calc' = [calc EXCEPT !.ret = discover_login_selectors(calc.page)]
    /\ UNCHANGED <<fetch, captured_data>>

\* the dict field_patterns of discover_field_mappings, in its order
field_patterns ==
    << Pair("subject",
            <<<<"s","u","b","j","e","c","t">>,
              <<"s","u","b","j","e","c","t","n","a","m","e">>,
              <<"c","o","u","r","s","e","n","a","m","e">>,
              <<"c","o","u","r","s","e">>>>),
       Pair("subject_code",
            <<<<"s","u","b","j","e","c","t","c","o","d","e">>,
              <<"c","o","u","r","s","e","c","o","d","e">>,
              <<"c","o","d","e">>,
              <<"s","u","b","c","o","d","e">>>>),
       Pair("present",
            <<<<"p","r","e","s","e","n","t">>,
              <<"p","r","e","s","e","n","t","c","o","u","n","t">>,
              <<"a","t","t","e","n","d","e","d">>,
              <<"a","t","t","e","n","d","e","d","c","l","a","s","s","e","s">>>>),
       Pair("absent",
            <<<<"a","b","s","e","n","t">>,
              <<"a","b","s","e","n","t","c","o","u","n","t">>,
              <<"m","i","s","s","e","d">>,
              <<"m","i","s","s","e","d","c","l","a","s","s","e","s">>>>),
       Pair("total",
            <<<<"t","o","t","a","l">>,
              <<"t","o","t","a","l","c","l","a","s","s","e","s">>,
              <<"c","o","n","d","u","c","t","e","d">>,
              <<"s","e","s","s","i","o","n">>,
              <<"c","l","a","s","s","e","s">>>>),
       Pair("percentage",
            <<<<"p","e","r","c","e","n","t","a","g","e">>,
              <<"p","e","r","c","e","n","t">>,
              <<"a","t","t","e","n","d","a","n","c","e","p","e","r">>,
              <<"a","t","t","e","n","d","a","n","c","e","p","e","r","c","e","n","t">>>>),
       Pair("faculty",
            <<<<"f","a","c","u","l","t","y">>,
              <<"f","a","c","u","l","t","n","a","m","e">>,
              <<"t","e","a","c","h","e","r">>,
              <<"i","n","s","t","r","u","c","t","o","r">>,
              <<"f","a","c","u","l","t","y","n","a","m","e">>>>),
       Pair("term",
            <<<<"t","e","r","m">>,
              <<"t","e","r","m","n","a","m","e">>,
              <<"s","e","m","e","s","t","e","r">>,
              <<"s","e","m">>>>) >>

\* d[k] = v on a dict: a new key is appended, a key already there keeps
\* its place and gets the new value
SetItem(d, k, v) ==
    IF HasKey(d, k) THEN [i \in DOMAIN d |-> IF d[i].k = k THEN Pair(k, v) ELSE d[i]]
    ELSE Append(d, Pair(k, v))

\* {k.lower(): k for k in sample.keys()}, over the first n keys
RECURSIVE sample_keys(_, _)
sample_keys(keys, n) ==
    IF n = 0 THEN <<>>
    ELSE SetItem(sample_keys(keys, n - 1), Lower(keys[n]), keys[n])

\* the loops over one field's patterns and over sample_keys: the
\* original key of the first lowercased key that holds the first pattern
\* held by any, or None
first_match(patterns, lowered) ==
    IF \E j \in DOMAIN patterns : \E i \in DOMAIN lowered : Contains(lowered[i].k, patterns[j])
    THEN The({ StrV(lowered[CHOOSE i \in DOMAIN lowered :
                        /\ Contains(lowered[i].k, patterns[j])
                        /\ \A h \in 1..(i - 1) : ~Contains(lowered[h].k, patterns[j])].v) :
               j \in {CHOOSE j \in DOMAIN patterns :
                        /\ \E i \in DOMAIN lowered : Contains(lowered[i].k, patterns[j])
                        /\ \A g \in 1..(j - 1) :
                              \A i \in DOMAIN lowered : ~Contains(lowered[i].k, patterns[g])} })
    ELSE NoneV

\* the mappings after the first n fields of field_patterns
RECURSIVE mappings_after(_, _)
mappings_after(lowered, n) ==
    IF n = 0 THEN <<>>
    ELSE IF first_match(field_patterns[n].v, lowered) = NoneV
         THEN mappings_after(lowered, n - 1)
         ELSE Append(mappings_after(lowered, n - 1),
                     Pair(field_patterns[n].k, first_match(field_patterns[n].v, lowered).s))

\* discover_field_mappings(sample_data): {} for no data; sample.keys()
\* raises when the first item is no dict
discover_field_mappings(sample_data) ==
    IF sample_data = <<>> THEN [raised |-> FALSE, mappings |-> <<>>]
    ELSE IF ~sample_data[1].isDict THEN [raised |-> TRUE, mappings |-> <<>>]
    ELSE [raised |-> FALSE,
          mappings |-> mappings_after(sample_keys(Keys(sample_data[1].pairs),
                                                  Len(sample_data[1].pairs)),
                                      Len(field_patterns))]

\* The sample data of the calls: the first record holds at most
\* MaxSampleKeys keys, each once
MaxSampleKeys == 3

RawKeys ==
    { <<"S","u","b","j","e","c","t">>,
      <<"s","u","b","j","e","c","t">>,
      <<"s","u","b","j","e","c","t","C","o","d","e">>,
      <<"c","o","u","r","s","e","N","a","m","e">>,
      <<"p","r","e","s","e","n","t","C","o","u","n","t">>,
      <<"A","t","t","e","n","d","e","d">>,
      <<"i","d">>,
      <<"S","e","m","e","s","t","e","r">> }

RECURSIVE KeyLists(_)
KeyLists(n) ==
    IF n = 0 THEN {<<>>}
    ELSE {<<>>} \cup {Append(keys, k) : keys \in KeyLists(n - 1), k \in RawKeys}

SampleRecords ==
    {Dict([i \in DOMAIN keys |-> Pair(keys[i], NoneV)]) :
        keys \in {keys \in KeyLists(MaxSampleKeys) :
                    \A i \in DOMAIN keys, j \in DOMAIN keys : i # j => keys[i] # keys[j]}}

MappingCalls ==
    {[op |-> "discover_field_mappings", sample_data |-> sample_data, ret |-> Pending] :
        sample_data \in {<<>>, <<notARecord>>}
                          \cup {<<sample>> : sample \in SampleRecords}
                          \cup {<<sample, recMaths1>> : sample \in SampleRecords}}

DiscoverFieldMappings ==
    /\ calc.op = "discover_field_mappings" /\ calc.ret = Pending
    /\ calc' = [calc EXCEPT !.ret = discover_field_mappings(calc.sample_data)]
    /\ UNCHANGED <<fetch, captured_data>>

\* ------------------------------------------------------------------------
\* The configuration in memory and in ~/.unitrack/config.yaml
\* ------------------------------------------------------------------------
Usernames == {"", "student@example.edu"}
Passwords == {"", "hunter2", "s3cret"}

\* Config(): the defaults of the dataclasses
DefaultConfig == [credentials |-> [username |-> "", password |-> ""], student_name |-> ""]

\* dataclasses.asdict: a deep copy, field by field
asdict(config) ==
    [credentials |-> [username |-> config.credentials.username, password |-> config.credentials.password],
     student_name |-> config.student_name]

\* the copy with the password left in
with_password(config) == asdict(config)

\* Config.to_dict: data['credentials']['password'] = ""
to_dict(config) == [asdict(config) EXCEPT !.credentials.password = ""]

\* Config.from_dict on what save_config wrote
from_dict(data) ==
    [credentials |-> [username |-> data.credentials.username, password |-> data.credentials.password],
     student_name |-> data.student_name]

\* config.yaml: missing ("none"), truncated ("empty"), or holding what
\* yaml.dump wrote ("saved")
ConfigFile(state, data) == [state |-> state, data |-> data]

ConfigCalls ==
    {[op |-> "config", config |-> DefaultConfig, file |-> ConfigFile("none", <<>>), last |-> "none"]}

\* setup: config = load_config(), then the prompts for the username and
\* the password (and the name of the student)
SetupPrompts ==
    /\ calc.op = "config"
    /\ \E username \in Usernames, password \in Passwords, name \in {"", "A. Student"} :
          calc' = [calc EXCEPT !.config = [credentials |-> [username |-> username, password |-> password],
                                           student_name |-> name],
                               !.last = "prompt"]
    /\ UNCHANGED <<fetch, captured_data>>

\* fetch: a missing password comes from UNITRACK_PASSWORD or the prompt
FetchPassword ==
    /\ calc.op = "config" /\ calc.config.credentials.password = ""
    /\ \E password \in Passwords :
          calc' = [calc EXCEPT !.config.credentials.password = password, !.last = "prompt"]
    /\ UNCHANGED <<fetch, captured_data>>

\* save_config: open(config_path, 'w') truncates the file, yaml.dump
\* writes config.to_dict(); either may raise
SaveConfig ==
    /\ calc.op = "config"
    /\ \E o \in {"ok", "open_raises", "dump_raises"} :
          calc' = [calc EXCEPT !.file = CASE o = "ok" -> ConfigFile("saved", to_dict(calc.config))
                                          [] o = "open_raises" -> calc.file
                                          [] OTHER -> ConfigFile("empty", <<>>),
                               !.last = "save"]
    /\ UNCHANGED <<fetch, captured_data>>

\* load_config: Config() for no file, Config.from_dict(data or {}) else
LoadConfig ==
    /\ calc.op = "config"
    /\ calc' = [calc EXCEPT !.config = IF calc.file.state = "saved"
                                       THEN from_dict(calc.file.data)
                                       ELSE DefaultConfig,
                            !.last = "load"]
    /\ UNCHANGED <<fetch, captured_data>>

InitSetup ==
    /\ fetch = [f \in Fetches |-> Idle]
    /\ captured_data = [a \in Fetches |-> <<>>]
    /\ calc \in SelectorCalls \cup MappingCalls \cup ConfigCalls

NextSetup ==
    \/ DiscoverLoginSelectors
    \/ DiscoverFieldMappings
    \/ SetupPrompts
    \/ FetchPassword
    \/ SaveConfig
    \/ LoadConfig

SpecSetup == InitSetup /\ [][NextSetup]_vars

\* ------------------------------------------------------------------------
\* Backend process_attendance on raw lists of its own
\* ------------------------------------------------------------------------
\* the longest raw list
MaxRaw == 3

RECURSIVE RawLists(_)
RawLists(n) ==
    IF n = 0 THEN {<<>>}
    ELSE {<<>>} \cup {Append(raw, Entry(0, idx, 0, Len(raw) + 1)) :
                         raw \in RawLists(n - 1), idx \in DOMAIN RawPool}

NormalizeCalls ==
    {[op |-> "process_attendance", raw_data |-> raw_data, ret |-> Pending] :
        raw_data \in RawLists(MaxRaw)}

ProcessAttendance ==
    /\ calc.op = "process_attendance" /\ calc.ret = Pending
    /\ calc' = [calc EXCEPT !.ret = ReturnOk(process_attendance(calc.raw_data))]
    /\ UNCHANGED <<fetch, captured_data>>

InitNormalize ==
    /\ fetch = [f \in Fetches |-> Idle]
    /\ captured_data = [a \in Fetches |-> <<>>]
    /\ calc \in NormalizeCalls

NextNormalize == ProcessAttendance

SpecNormalize == InitNormalize /\ [][NextNormalize]_vars

\* ------------------------------------------------------------------------
\* Properties
\* ------------------------------------------------------------------------
\* the core fetch was called and has returned to its caller (the CLI's
\* refusal of an incomplete configuration returns before calling it)
FetchReturned(f) ==
    /\ fetch[f].kind \in {"scraper", "backend"}
    /\ fetch[f].pc = "done"
    /\ fetch[f].result.kind # "none"

ClassifiedErrors ==
    {"Configuration incomplete", "Invalid credentials", "Authentication failed",
     no_data_error}

\* C1: every fetch ends in a classified outcome: a list of records or one of
\* the classified failures; no exception reaches the caller and no outcome
\* is the raw text of an internal error.
C1_FetchEndsClassified ==
    \A f \in Fetches :
        FetchReturned(f) =>
            /\ fetch[f].result.kind \in {"list", "ok", "error"}
            /\ fetch[f].result.kind = "error" => fetch[f].result.error \in ClassifiedErrors

\* C2: on every exit path of a fetch the browser has been closed and the
\* Playwright driver has been stopped.
C2_TeardownOnEveryExit ==
    \A f \in Fetches :
        FetchReturned(f) =>
            /\ fetch[f].browser # "open"
            /\ fetch[f].playwright # "started"

\* C3: a run is in the Authenticated state only if the post-submit URL holds
\* neither failure signature ("login" together with "error"; "authfailed").
C3_AuthenticatedOnlyWithoutFailureSignature ==
    \A f \in Fetches :
        fetch[f].is_logged_in =>
            /\ ~invalid_credentials(fetch[f].url)
            /\ ~authentication_failed(fetch[f].url)

\* C4: a fetch whose post-submit URL holds a failure signature returns the
\* error of that signature (invalid credentials, or authentication failed),
\* which differs from the no-data outcome, clicks no trigger and returns no
\* records.
C4_AuthFailureSurfacedDistinctly ==
    \A f \in Fetches :
        (FetchReturned(f) /\ fetch[f].result.kind # "raise") =>
            /\ invalid_credentials(fetch[f].url) =>
                  /\ fetch[f].result = ReturnError("Invalid credentials")
                  /\ ~fetch[f].clicked
            /\ (authentication_failed(fetch[f].url) /\ ~invalid_credentials(fetch[f].url)) =>
                  /\ fetch[f].result = ReturnError("Authentication failed")
                  /\ ~fetch[f].clicked

\* the configuration the core fetch is called with lacks a required
\* selector or a credential
ConfigurationIncomplete(f) ==
    \/ ~is_complete(fetch[f].config)
    \/ ~fetch[f].config.username
    \/ ~fetch[f].config.password

\* C5: a fetch with an incomplete configuration navigates nowhere and ends
\* as ConfigurationIncomplete, by whichever entry point it is reached.
C5_IncompleteConfigurationNeverNavigates ==
    \A f \in Fetches :
        (fetch[f].kind = "scraper" /\ fetch[f].pc # "start" /\ ConfigurationIncomplete(f)) =>
            /\ ~fetch[f].navigated
            /\ (FetchReturned(f) /\ fetch[f].result.kind # "raise") =>
                  fetch[f].result = ReturnError("Configuration incomplete")

\* C6: when an interaction window has ended, the response callback
\* registered for it has been removed from the page.
C6_ListenerRemovedAtExit ==
    \A f \in Fetches : fetch[f].pc = "done" => ~fetch[f].listener

\* the keys of a record that hold a word of the attendance vocabulary
\* (case-insensitive substring)
VocabularyKeys(first) ==
    {i \in DOMAIN first.pairs :
        \E w \in DOMAIN discovery_attendance_keys :
            Contains(Lower(first.pairs[i].k), Lower(discovery_attendance_keys[w]))}

QualifyingResponses ==
    {rid \in DOMAIN Responses :
        LET body == Responses[rid].body
        IN  /\ body.parses /\ body.isList /\ Len(body.items) > 0
            /\ body.items[1].isDict
            /\ Cardinality(VocabularyKeys(body.items[1])) >= 2}

\* C7: every accumulator entry came from a response whose first record has
\* at least two keys of the attendance vocabulary.
C7_CapturedFromQualifyingResponses ==
    \A a \in Fetches :
        \A k \in DOMAIN captured_data[a] : captured_data[a][k].rid \in QualifyingResponses

\* the fetch reported that no attendance data was found
ReportedNoData(f) ==
    /\ FetchReturned(f)
    /\ \/ fetch[f].result = ReturnError(no_data_error)
       \/ /\ fetch[f].result = ReturnList(<<>>)
          /\ fetch[f].said = "No attendance data captured"

\* C8: a fetch reports no data only when it was authenticated, attempted
\* every trigger of its list and requested the attendance API directly.
C8_NoDataOnlyAfterAllFallbacks ==
    \A f \in Fetches :
        ReportedNoData(f) =>
            /\ fetch[f].is_logged_in
            /\ fetch[f].attempted = TriggerCount(fetch[f].kind)
            /\ fetch[f].direct_request

\* C9: the records in a fetch's accumulator and in the list it returns all
\* come from responses observed on that fetch's own page.
C9_FetchesAreIsolated ==
    \A f \in Fetches :
        /\ \A k \in DOMAIN captured_data[f] : captured_data[f][k].page = f
        /\ \A k \in DOMAIN fetch[f].result.records : fetch[f].result.records[k].src.page = f

\* one fetch has returned records while the other one is inside its
\* interaction window
C9_Witness ==
    \E f \in Fetches, g \in Fetches :
        /\ f # g
        /\ fetch[f].pc = "done" /\ fetch[f].result.records # <<>>
        /\ fetch[g].listener /\ fetch[g].browser = "open" /\ fetch[g].pc # "done"

Identity(rec) == <<rec.subject, rec.subject_code>>

\* the place of entry e in the accumulator
PlaceOf(captured, e) == CHOOSE k \in DOMAIN captured : captured[k] = e

\* the (subject, subject_code) the normalization of fetch f gives the raw
\* record of entry e, if it emits one for it on its own
NormalizedAlone(f, e) ==
    IF fetch[f].kind = "backend" THEN process_attendance(<<e>>)
    ELSE scraper_process_attendance(default_field_mappings, <<e>>)

\* C10: the normalized list holds at most one record per (subject,
\* subject_code), and that record is the first raw record of the identity
\* in arrival order.
C10_FirstOccurrenceWins ==
    \A f \in Fetches :
        FetchReturned(f) =>
            LET records == fetch[f].result.records
                captured == captured_data[AccumulatorOf(f)]
            IN  /\ \A i \in DOMAIN records, j \in DOMAIN records :
                       i # j => Identity(records[i]) # Identity(records[j])
                /\ \A i \in DOMAIN records :
                       \A k \in 1..(PlaceOf(captured, records[i].src) - 1) :
                           \A n \in DOMAIN NormalizedAlone(f, captured[k]) :
                               Identity(NormalizedAlone(f, captured[k])[n]) # Identity(records[i])

\* the records the returned fetches hold
EmittedRecords ==
    UNION {{fetch[f].result.records[i] : i \in DOMAIN fetch[f].result.records} :
           f \in {f \in Fetches : FetchReturned(f)}}

Distance(a, b) == IF a < b THEN b - a ELSE a - b

\* C11: every record normalization emits has total = present + absent,
\* whatever total field its raw record holds; its percentage is
\* present/total*100 to the nearest hundredth when total > 0, and 0 when
\* total = 0.
C11_TotalAndPercentage ==
    \A r \in EmittedRecords :
        /\ r.total = r.present + r.absent
        /\ r.total > 0 => 2 * Distance(r.percentage * r.total, 10000 * r.present) <= r.total
        /\ r.total = 0 => r.percentage = 0

\* a returned list holds the record of 23 out of 160 classes, made from a
\* raw record whose session field is another total, and a record of no
\* classes at all
C11_Witness ==
    /\ \E r \in EmittedRecords :
           /\ HasKey(RawItem(r.src).pairs, <<"s","e","s","s","i","o","n">>)
           /\ Get(RawItem(r.src).pairs, <<"s","e","s","s","i","o","n">>, NoneV).n # r.total
           /\ r.present = 23 /\ r.total = 160 /\ r.percentage = 1437
    /\ \E r \in EmittedRecords : r.total = 0 /\ r.percentage = 0

\* C12: every record normalization emits has present >= 0 and absent >= 0
\* and carries the eight wire fields subject, subject_code, present, absent,
\* total, percentage, faculty and term.
C12_NonNegativeWithEightFields ==
    \A r \in EmittedRecords :
        /\ r.present >= 0
        /\ r.absent >= 0
        /\ {"subject", "subject_code", "present", "absent", "total", "percentage",
            "faculty", "term"} \subseteq {r.keys[k] : k \in DOMAIN r.keys}

\* the rank of a status: LOW < CRITICAL < SAFE
Rank(status) == CASE status = Status.LOW -> 0 [] status = Status.CRITICAL -> 1 [] status = Status.SAFE -> 2

\* the band of a percentage in exact arithmetic, all in hundredths
Band(percentage, threshold, safe_buffer) ==
    CASE percentage >= threshold + safe_buffer -> Status.SAFE
      [] threshold <= percentage /\ percentage < threshold + safe_buffer -> Status.CRITICAL
      [] percentage < threshold -> Status.LOW

KeywordMatches(custom, name) ==
    {i \in DOMAIN custom : Contains(Lower(name), Lower(custom[i].k))}

\* C14: get_threshold returns custom[code] when code is a key of custom;
\* otherwise the threshold of the first entry of custom whose keyword is in
\* the name, letters compared without case; otherwise default.  The match
\* of the code wins over a keyword that matches earlier in custom.
C14_ThresholdPrecedence ==
    (calc.op = "get_threshold" /\ calc.returned) =>
        LET custom == calc.thresholds.custom
            matches == KeywordMatches(custom, calc.subject_name)
        IN  calc.threshold =
                IF HasKey(custom, calc.subject_code)
                THEN custom[CHOOSE i \in DOMAIN custom : custom[i].k = calc.subject_code].v
                ELSE IF matches # {}
                THEN custom[CHOOSE i \in matches : \A j \in matches : i <= j].v
                ELSE calc.thresholds.default

\* floor(n / d) and ceil(n / d) of the rational n / d, d > 0
FloorOf(n, d) == n \div d
CeilOf(n, d) == 0 - ((0 - n) \div d)

\* C15: calculate_classes_needed returns 0 when conducted = 0, when
\* attended/conducted >= t/100 or when t = 100, and otherwise
\* ceil((t/100*conducted - attended) / (1 - t/100)); attended 50 of
\* conducted 100 under t = 75 gives 100.  (t is held in hundredths.)
C15_ClassesNeeded ==
    (calc.op = "calculate_classes_needed" /\ calc.returned) =>
        LET a == calc.attended  c == calc.conducted  t == calc.threshold
        IN  /\ calc.classes =
                   IF c = 0 \/ 10000 * a >= t * c \/ t = 10000 THEN 0
                   ELSE CeilOf(t * c - 10000 * a, 10000 - t)
            /\ (a = 50 /\ c = 100 /\ t = 7500) => calc.classes = 100

\* C16: calculate_classes_can_miss returns 0 when conducted = 0, when
\* attended/conducted < t/100 or when t = 0, and otherwise
\* floor((attended - t/100*conducted) / (t/100)).
C16_ClassesCanMiss ==
    (calc.op = "calculate_classes_can_miss" /\ calc.returned) =>
        LET a == calc.attended  c == calc.conducted  t == calc.threshold
        IN  calc.classes =
                IF c = 0 \/ 10000 * a < t * c \/ t = 0 THEN 0
                ELSE FloorOf(10000 * a - t * c, t)

\* the analysed subject of 70 classes present and 20 absent, under
\* threshold 75 and safe buffer 10
C17_Subjects ==
    IF calc.op = "analyze_all" /\ calc.pc # "start"
    THEN {calc.analysis.subjects[i] : i \in
              {i \in DOMAIN calc.analysis.subjects :
                   /\ calc.analysis.subjects[i].present = 70
                   /\ calc.analysis.subjects[i].total = 90
                   /\ calc.analysis.subjects[i].threshold = 7500
                   /\ calc.thresholds.safe_buffer = 1000}}
    ELSE {}

\* C17: the subject with present = 70, absent = 20 (total 90), analysed
\* with threshold 75 and safe buffer 10, has percentage 77.78, status
\* CRITICAL and classes_can_miss 6.
C17_ExampleCanMissSix ==
    \A s \in C17_Subjects :
        s.percentage = 7778 /\ s.status = Status.CRITICAL /\ s.classes_can_miss = 6

\* C17, amended: that subject has percentage 77.78, status CRITICAL and
\* classes_can_miss 3 = floor((70 - 0.75 * 90) / 0.75).
C17_ExampleCanMissThree ==
    \A s \in C17_Subjects :
        s.percentage = 7778 /\ s.status = Status.CRITICAL /\ s.classes_can_miss = 3

C17_Witness == \E s \in C17_Subjects : s.classes_can_miss = 3 /\ s.status = Status.CRITICAL

\* C18: analyze_all applied to the subjects of its own result, present and
\* total unchanged, gives every subject the percentage and the status the
\* first application gave it.
C18_AnalyzeAllIdempotent ==
    (calc.op = "analyze_all" /\ calc.pc = "analyzed again") =>
        /\ Len(calc.again.subjects) = Len(calc.analysis.subjects)
        /\ \A i \in DOMAIN calc.analysis.subjects :
               /\ calc.again.subjects[i].present = calc.analysis.subjects[i].present
               /\ calc.again.subjects[i].total = calc.analysis.subjects[i].total
               /\ calc.again.subjects[i].percentage = calc.analysis.subjects[i].percentage
               /\ calc.again.subjects[i].status = calc.analysis.subjects[i].status

\* the sum of a field over the first n records of a list
RECURSIVE SumTo(_, _, _)
SumTo(records, field, n) ==
    IF n = 0 THEN 0 ELSE SumTo(records, field, n - 1) + records[n][field]

\* C19: in the summary of analyze_all, total_subjects is the number of
\* input records and is safe_count + critical_count + low_count;
\* overall_present and overall_total are the sums of the records' present
\* and total; overall_status is the band of overall_present/overall_total*100
\* (0 when overall_total is 0) under thresholds.default, whatever custom
\* thresholds the subjects have.
C19_Summary ==
    (calc.op = "analyze_all" /\ calc.pc # "start") =>
        LET summary == calc.analysis.summary
            present == SumTo(calc.subjects, "present", Len(calc.subjects))
            total == SumTo(calc.subjects, "total", Len(calc.subjects))
        IN  /\ summary.total_subjects = Len(calc.subjects)
            /\ summary.total_subjects
                   = summary.safe_count + summary.critical_count + summary.low_count
            /\ summary.overall_present = present
            /\ summary.overall_total = total
            /\ summary.overall_status =
                   IF total > 0
                   THEN Band(10000 * present, calc.thresholds.default * total,
                             calc.thresholds.safe_buffer * total)
                   ELSE Band(0, calc.thresholds.default, calc.thresholds.safe_buffer)

\* two subjects were analysed, one of them under a custom threshold, and
\* classes were conducted
C19_Witness ==
    /\ calc.op = "analyze_all" /\ calc.pc = "analyzed"
    /\ Len(calc.subjects) = 2
    /\ calc.analysis.summary.overall_total > 0
    /\ \E i \in DOMAIN calc.analysis.subjects :
           calc.analysis.subjects[i].threshold # calc.thresholds.default

LoginSteps(f) ==
    <<fetch[f].navigated, fetch[f].filled_username, fetch[f].filled_password,
      fetch[f].submitted, fetch[f].url # <<>>, fetch[f].attempted > 0>>

\* C24: in every fetch or discovery run the login steps occur in the order
\* navigate, fill username, fill password, click submit, verify URL,
\* attempt reveal triggers, and no step has occurred unless every earlier
\* step has: the submit control is clicked only after both fields were
\* filled, a reveal trigger is attempted only after a submit click.
C24_LoginStepsInOrder ==
    \A f \in Fetches :
        \A later \in DOMAIN LoginSteps(f) :
            LoginSteps(f)[later] => \A earlier \in 1..(later - 1) : LoginSteps(f)[earlier]

\* this step of fetch f is the click on a reveal trigger: one of the list,
\* or the configured attendance_trigger
TriggerClicked(f) ==
    /\ fetch[f].pc \in {"click", "cfg_click"}
    /\ fetch'[f].pc \in {"settle", "cfg_settle"}

\* C25: during the reveal phase no trigger is clicked in a state where the
\* accumulator already holds captured records, whenever they were appended
\* (during login, during a probe or during a settle wait).
C25_NoClickOnceCaptured ==
    [][\A f \in Fetches : TriggerClicked(f) => captured_data[AccumulatorOf(f)] = <<>>]_vars

\* the exception of a page interaction is ending fetch f: login() caught it
\* and returns False, or it is leaving fetch_attendance through the finally
\* clause, or fetch_attendance_from_erp is in its except clause before the
\* post-login URL was read (page.goto or a wait raised)
EndedByInteraction(f) ==
    \/ fetch[f].kind = "scraper" /\ fetch[f].said = "Login error"
    \/ fetch[f].kind = "scraper" /\ fetch[f].pc = "remove" /\ fetch[f].raised
    \/ fetch[f].kind = "backend" /\ fetch[f].pc = "b_except" /\ fetch[f].url = <<>>

\* C26: an exception raised by a single page interaction during a fetch
\* (navigation, wait, locate, fill, click, the click on a configured
\* attendance_trigger included) does not end the fetch: the flow goes on
\* with the next candidate or step, and the exception is not the outcome.
C26_InteractionExceptionsAbsorbed ==
    \A f \in Fetches : ~EndedByInteraction(f)

\* C27: in the setup flow discover_attendance_api is invoked, and the
\* discovered selectors are stored, only when discover_login_selectors
\* returned non-empty values for username_input, password_input and
\* login_button.
C27_ApiDiscoveryOnlyWithCompleteSelectors ==
    \A f \in Fetches :
        fetch[f].kind = "discovery" /\ fetch[f].pc = "d_register" => is_complete(fetch[f].config)

\* the accumulators of the fetches that extend them with the items of a
\* response: the core scraper's and the backend's
ItemAccumulators == {f \in Fetches : fetch[f].kind \in {"scraper", "backend"}}

IsPrefix(a, b) == Len(a) <= Len(b) /\ SubSeq(b, 1, Len(a)) = a

\* the entries of accumulator a that the delivery numbered seq appended
OfDelivery(a, seq) == SelectSeq(captured_data[a], LAMBDA e : e.seq = seq)

\* entries stand in the order of their deliveries, and the entries of one
\* delivery are the items 1, 2, ... of the whole list of its response, in
\* that order, records of equal identity included
InArrivalOrder(a) ==
    /\ \A j \in DOMAIN captured_data[a], k \in DOMAIN captured_data[a] :
            j < k => captured_data[a][j].seq <= captured_data[a][k].seq
    /\ \A j \in DOMAIN captured_data[a] :
            LET e == captured_data[a][j]
                own == OfDelivery(a, e.seq)
            IN  /\ Len(own) = Len(Responses[e.rid].body.items)
                /\ \A k \in DOMAIN own : own[k].rid = e.rid /\ own[k].idx = k

\* C28: within one interaction window the accumulator only grows by
\* appending: at every step its previous contents are a prefix of its
\* current contents, the records of an earlier response precede those of a
\* later one, the records of one response keep their order, and records
\* of equal identity are all retained.
C28_AccumulatorAppendOnly ==
    /\ [][\A a \in ItemAccumulators : IsPrefix(captured_data[a], captured_data'[a])]_vars
    /\ [](\A a \in ItemAccumulators : InArrivalOrder(a))

\* an accumulator holds the records of two deliveries, two of them of one
\* subject and code
C28_Witness ==
    \E a \in ItemAccumulators :
        \E j \in DOMAIN captured_data[a], k \in DOMAIN captured_data[a], l \in DOMAIN captured_data[a] :
            /\ j < k /\ k < l
            /\ captured_data[a][j].seq = captured_data[a][k].seq
            /\ captured_data[a][k].seq < captured_data[a][l].seq
            /\ Get(RawItem(captured_data[a][j]).pairs, Field.subject, NoneV)
                 = Get(RawItem(captured_data[a][k]).pairs, Field.subject, NoneV)
            /\ Get(RawItem(captured_data[a][j]).pairs, Field.subjectCode, NoneV)
                 = Get(RawItem(captured_data[a][k]).pairs, Field.subjectCode, NoneV)

\* the body of response r parses to a non-empty list whose first element is
\* a key-value record
RecordList(r) ==
    /\ r.body.parses /\ r.body.isList
    /\ Len(r.body.items) > 0 /\ r.body.items[1].isDict

\* C29: a response whose body cannot be read or parsed, or whose parsed
\* value is not a non-empty list whose first element is a key-value record,
\* leaves the accumulator exactly as it was: no accumulator ever holds an
\* entry that came from such a response.
C29_UnusableResponsesAppendNothing ==
    \A a \in Fetches : \A j \in DOMAIN captured_data[a] :
        RecordList(Responses[captured_data[a][j].rid])

\* the statements of the flows in the order of the code; the three steps
\* of one trigger share a stage, as do the candidates of one loop
Stages ==
    << {"start"}, {"enter"}, {"login"}, {"goto", "b_goto", "d_selectors"}, {"d_register"},
       {"b_user"}, {"b_pass"}, {"b_submit"}, {"b_wait"}, {"b_verify"},
       {"fill_user"}, {"fill_pass"}, {"submit"}, {"verify"}, {"register"},
       {"cfg_probe"}, {"cfg_click"}, {"cfg_settle"},
       {"probe", "click", "settle"},
       {"direct"}, {"remove", "d_remove"}, {"process"}, {"b_close", "d_close"},
       {"b_except"}, {"exit"}, {"b_with_exit", "d_with_exit"}, {"done"} >>

Stage(pc) == CHOOSE k \in DOMAIN Stages : pc \in Stages[k]

WithinTrigger(pc) == CASE pc = "click" -> 2 [] pc = "settle" -> 3 [] OTHER -> 1

\* whether the fetch record after has moved on from before
MovedOn(before, after) ==
    \/ Stage(before.pc) < Stage(after.pc)
    \/ /\ Stage(before.pc) = Stage(after.pc)
       /\ \/ before.i < after.i
          \/ before.i = after.i /\ WithinTrigger(before.pc) < WithinTrigger(after.pc)

\* the length of the list that the loop at pc goes through
ListLength(r) ==
    CASE r.pc = "b_user" -> username_selectors_len
      [] r.pc = "b_pass" -> password_selectors_len
      [] r.pc = "b_submit" -> submit_selectors_len
      [] OTHER -> TriggerCount(r.kind)

InLoop(r) == r.pc \in {"b_user", "b_pass", "b_submit", "probe", "click", "settle"}

\* the caller of the fetch has got its outcome
Terminal(r) == r.pc = "done" /\ r.result # Pending

\* C30: every fetch ends with an outcome; on the way each loop stays within
\* its candidate list, at most as many triggers are attempted as the list
\* holds, a fetch that has submitted the login is never again at a step
\* that submits, and every step moves on in the code: none is run again.
C30_EveryFetchEnds ==
    /\ \A f \in Fetches : <>[](fetch[f].kind = "idle" \/ Terminal(fetch[f]))
    /\ [](\A f \in Fetches :
             /\ InLoop(fetch[f]) => fetch[f].i \in 1..ListLength(fetch[f])
             /\ fetch[f].attempted <= TriggerCount(fetch[f].kind)
             /\ fetch[f].submitted => fetch[f].pc \notin {"submit", "b_submit"})
    /\ [][\A f \in Fetches :
             fetch'[f] = fetch[f]
               \/ [fetch'[f] EXCEPT !.delivered = fetch[f].delivered] = fetch[f]
               \/ MovedOn(fetch[f], fetch'[f])]_vars

\* a backend fetch has ended after submitting the login and attempting
\* every trigger of its list
C30_Witness ==
    \E f \in Fetches :
        /\ fetch[f].kind = "backend" /\ Terminal(fetch[f])
        /\ fetch[f].submitted /\ fetch[f].attempted = backend_triggers_len

\* whether the probe of a pattern finds an element that counts: the
\* locator resolves to at least one element and the first is visible
Qualifies(probe) ==
    /\ ~probe.count_raises /\ ~probe.visible_raises
    /\ Len(probe.elements) > 0 /\ probe.elements[1]

Returned(op) == calc.op = op /\ calc.ret # Pending

RawSampleKeys == Keys(calc.sample_data[1].pairs)

\* C22: on a non-empty sample whose first item is a record, each field is
\* bound to the first raw key, in the sample's key order, whose lowercased
\* name contains the first pattern of the field that any key contains;
\* a bound value is a key of the sample as spelled there; a field none of
\* whose patterns matches is absent; no sample data gives no mapping.
C22_FirstRawKeyOfFirstPattern ==
    Returned("discover_field_mappings") =>
        /\ calc.sample_data = <<>> => calc.ret = [raised |-> FALSE, mappings |-> <<>>]
        /\ calc.sample_data # <<>> /\ calc.sample_data[1].isDict =>
              /\ ~calc.ret.raised
              /\ \A n \in DOMAIN field_patterns :
                    LET patterns == field_patterns[n].v
                        holds(i, j) == Contains(Lower(RawSampleKeys[i]), patterns[j])
                        matching == {j \in DOMAIN patterns :
                                        \E i \in DOMAIN RawSampleKeys : holds(i, j)}
                        first == CHOOSE j \in matching : \A g \in matching : j <= g
                        key == CHOOSE i \in DOMAIN RawSampleKeys :
                                   /\ holds(i, first)
                                   /\ \A h \in 1..(i - 1) : ~holds(h, first)
                    IN  IF matching = {}
                        THEN ~HasKey(calc.ret.mappings, field_patterns[n].k)
                        ELSE /\ HasKey(calc.ret.mappings, field_patterns[n].k)
                             /\ Get(calc.ret.mappings, field_patterns[n].k, <<>>)
                                  = RawSampleKeys[key]

\* C23: whatever password the configuration in memory holds, a saved
\* configuration file holds the empty password, and saving leaves the
\* configuration in memory as it is.
C23_PasswordNeverPersisted ==
    /\ [](calc.op = "config" /\ calc.file.state = "saved" =>
             calc.file.data.credentials.password = "")
    /\ [][calc.op = "config" /\ calc'.last = "save" => calc'.config = calc.config]_vars

\* the configuration was saved with a password in memory
C23_Witness ==
    /\ calc.op = "config" /\ calc.last = "save" /\ calc.file.state = "saved"
    /\ calc.config.credentials.password # ""
    /\ calc.file.data.credentials.username = calc.config.credentials.username
    /\ calc.config.credentials.username # ""

\* the numbers of further classes looked at; the answers of the calls lie
\* well below
MaxFurther == 200

\* with x further classes attended, or y further classes missed, the
\* attendance is at least t (in hundredths of a percent)
ReachedWith(a, c, t, x) == 10000 * (a + x) >= t * (c + x)
KeptWith(a, c, t, y) == 10000 * a >= t * (c + y)

\* C31: for 0 < t < 100 and 0 <= attended <= conducted, conducted > 0,
\* calculate_classes_needed returns the least x >= 0 with
\* (attended + x)/(conducted + x) >= t/100, and calculate_classes_can_miss
\* the greatest y >= 0 with attended/(conducted + y) >= t/100, or 0 when
\* attended/conducted is below t/100.
C31_LeastAndGreatest ==
    (/\ calc.op \in {"calculate_classes_needed", "calculate_classes_can_miss"}
     /\ calc.returned
     /\ 0 < calc.threshold /\ calc.threshold < 10000
     /\ calc.conducted > 0 /\ calc.attended <= calc.conducted) =>
        LET a == calc.attended  c == calc.conducted  t == calc.threshold
        IN  IF calc.op = "calculate_classes_needed"
            THEN /\ calc.classes \in 0..MaxFurther
                 /\ ReachedWith(a, c, t, calc.classes)
                 /\ \A x \in 0..(calc.classes - 1) : ~ReachedWith(a, c, t, x)
            ELSE IF ~KeptWith(a, c, t, 0) THEN calc.classes = 0
            ELSE /\ calc.classes \in 0..MaxFurther
                 /\ KeptWith(a, c, t, calc.classes)
                 /\ ~KeptWith(a, c, t, calc.classes + 1)

\* the percentage of the subject dict (in hundredths) is present/total*100
\* rounded to two decimals, or 0 for no classes: what normalization emits
Normalized(subject_data) ==
    IF subject_data.total = 0 THEN subject_data.percentage = 0
    ELSE /\ 2 * (subject_data.percentage * subject_data.total - 10000 * subject_data.present)
                <= subject_data.total
         /\ 2 * (10000 * subject_data.present - subject_data.percentage * subject_data.total)
                <= subject_data.total

\* C32: for a record as normalization emits it, under every threshold
\* configuration, analyze_subject reports LOW exactly when classes_needed
\* is at least 1, and a LOW subject has classes_can_miss = 0.
C32_LowIffClassesNeeded ==
    (calc.op = "analyze_all" /\ calc.pc # "start") =>
        \A i \in DOMAIN calc.subjects :
            Normalized(calc.subjects[i]) =>
                /\ calc.analysis.subjects[i].status = Status.LOW
                     <=> calc.analysis.subjects[i].classes_needed >= 1
                /\ calc.analysis.subjects[i].status = Status.LOW
                     => calc.analysis.subjects[i].classes_can_miss = 0

\* the record process_attendance emits for entry e handed over alone
\* (none for a record it skips or that fails conversion)
WellFormed(e) == process_attendance(<<e>>) # <<>>
IdentityOf(e) == Identity(process_attendance(<<e>>)[1])

Processed == calc.op = "process_attendance" /\ calc.ret # Pending

\* C33: deduplication in process_attendance never merges distinct
\* identities: in a list of well-formed raw records, two records whose
\* (subject, subject_code) differ both have their record in the output.
C33_DistinctIdentitiesRetained ==
    (Processed /\ \A k \in DOMAIN calc.raw_data : WellFormed(calc.raw_data[k])) =>
        \A i \in DOMAIN calc.raw_data, j \in DOMAIN calc.raw_data :
            IdentityOf(calc.raw_data[i]) # IdentityOf(calc.raw_data[j]) =>
                \E m \in DOMAIN calc.ret.records, n \in DOMAIN calc.ret.records :
                    /\ Identity(calc.ret.records[m]) = IdentityOf(calc.raw_data[i])
                    /\ Identity(calc.ret.records[n]) = IdentityOf(calc.raw_data[j])

\* C34: a raw record that fails conversion is skipped without affecting
\* the others: for every well-formed raw record the output holds a record
\* of its identity, made from the first well-formed raw record of that
\* identity.
C34_FirstWellFormedKept ==
    Processed =>
        \A i \in DOMAIN calc.raw_data :
            WellFormed(calc.raw_data[i]) =>
                \E m \in DOMAIN calc.ret.records :
                    /\ Identity(calc.ret.records[m]) = IdentityOf(calc.raw_data[i])
                    /\ \E k \in 1..i :
                          /\ calc.ret.records[m].src = calc.raw_data[k]
                          /\ WellFormed(calc.raw_data[k])
                          /\ IdentityOf(calc.raw_data[k]) = IdentityOf(calc.raw_data[i])
                          /\ \A h \in 1..(k - 1) :
                                WellFormed(calc.raw_data[h]) =>
                                    IdentityOf(calc.raw_data[h]) # IdentityOf(calc.raw_data[i])

\* C35: each observed response contributes to an accumulator at most once:
\* no accumulator holds two entries for the same item of the same delivery
\* (for ERPDiscovery, whose entry is the whole response, two entries of
\* one delivery).
C35_OneContributionPerResponse ==
    \A a \in Fetches :
        \A j \in DOMAIN captured_data[a], k \in DOMAIN captured_data[a] :
            (/\ captured_data[a][j].seq = captured_data[a][k].seq
             /\ captured_data[a][j].idx = captured_data[a][k].idx) => j = k

\* C36: the mapping discover_field_mappings returns is injective: no raw
\* key of the sample is bound to two canonical fields.
C36_MappingInjective ==
    Returned("discover_field_mappings") =>
        \A m \in DOMAIN calc.ret.mappings, n \in DOMAIN calc.ret.mappings :
            calc.ret.mappings[m].v = calc.ret.mappings[n].v => m = n

\* C37: a call of UniversalScraper.fetch_attendance that returns an empty
\* list leaves the attendance cache file as it was.
C37_EmptyReturnKeepsCache ==
    \A f \in Fetches :
        (fetch[f].kind = "scraper" /\ fetch[f].ret = ReturnList(<<>>)) =>
            fetch[f].attendance_json = "kept"

\* the steps of login() that touch the page
LoginTouches(r) == <<r.navigated, r.filled_username, r.filled_password, r.submitted, r.url>>

\* the scraper holds a listener or has probed or clicked a trigger
Capturing(r) == r.listener \/ r.clicked \/ r.attempted > 0

\* C38: the logged-in flag of a scraper is false at the start, is set only
\* by the URL check of login() on a URL without "login", and is never
\* cleared; the listener is registered and triggers are probed or clicked
\* only with the flag set; with the flag set no step of login() runs; and a
\* scraper that leaves with the flag clear returns [] and never held a
\* listener.
C38_LoggedInFlag ==
    /\ [](\A f \in Fetches :
            LET r == fetch[f]
            IN  r.kind = "scraper" =>
                  /\ r.pc \in {"start", "enter", "login"} => ~r.is_logged_in
                  /\ r.is_logged_in =>
                        r.submitted /\ ~Contains(Lower(r.url), Text.login)
                  /\ Capturing(r) => r.is_logged_in
                  /\ (r.pc = "exit" /\ ~r.is_logged_in) =>
                        /\ r.ret = ReturnList(<<>>)
                        /\ ~Capturing(r)
                        /\ captured_data[AccumulatorOf(f)] = <<>>)
    /\ [][\A f \in Fetches :
            LET r == fetch[f]
                n == fetch'[f]
            IN  r.kind = "scraper" =>
                  /\ r.is_logged_in => n.is_logged_in
                  /\ (~r.is_logged_in /\ n.is_logged_in) =>
                        r.pc = "verify" /\ ~Contains(Lower(r.url), Text.login)
                  /\ r.is_logged_in => LoginTouches(n) = LoginTouches(r)
                  /\ (~r.listener /\ n.listener) => r.is_logged_in]_vars

\* a logged-in scraper holds its listener and has clicked a trigger
C38_Witness ==
    \E f \in Fetches :
        /\ fetch[f].kind = "scraper" /\ fetch[f].is_logged_in
        /\ fetch[f].listener /\ fetch[f].clicked
====
